---------------------------- MODULE Spec2Model ----------------------------
(***************************************************************************)
(* A model of goml (github.com/audi70r/goml/pkg/goml): the Engine, its     *)
(* Model Descriptor, its Weight Store, the four trainers and predictors,   *)
(* the JSON snapshots and the automatic model selection.                   *)
(*                                                                         *)
(* Representation.                                                         *)
(*   - A Go string is a tuple of one-character strings, so that key        *)
(*     formatting is concatenation and splitWeightKey really parses.       *)
(*   - A Go interface{} value is a record [k, n, s]: k its dynamic type,   *)
(*     n its number, s its text.                                           *)
(*   - A float64 is a fixed-point number: the integer n stands for         *)
(*     n / Scale.  Products and quotients truncate toward zero, so that    *)
(*     arithmetic stays symmetric under negation as IEEE arithmetic is.    *)
(*   - A Go map is a record [nil, m]: a nil map reads as empty and         *)
(*     panics when written.                                                *)
(*   - Go's map iteration order is unspecified: wherever the result of a   *)
(*     loop over a map depends on the order, the order is an argument      *)
(*     that the calling action picks nondeterministically.                 *)
(***************************************************************************)
EXTENDS Integers, Sequences, FiniteSets, TLC

\* Denominator of the fixed-point numbers that stand for float64.
Scale == 1000

-----------------------------------------------------------------------------
(* Integer helpers *)

Abs(a) == IF a < 0 THEN -a ELSE a

Sgn(a) == IF a < 0 THEN -1 ELSE 1

Min(a, b) == IF a < b THEN a ELSE b

\* Quotient truncated toward zero (b # 0).
TruncDiv(a, b) == Sgn(a) * Sgn(b) * (Abs(a) \div Abs(b))

\* float64 product and quotient on fixed-point numbers.
FMul(a, b) == TruncDiv(a * b, Scale)

FDiv(a, b) == TruncDiv(a * Scale, b)

\* float64(i) for an int i.
FromInt(i) == i * Scale

RECURSIVE SumFn(_)
\* Sum of the values of a function with a finite domain (fixed-point addition
\* is associative, so the order of a loop that only adds does not matter).
SumFn(f) ==
    IF DOMAIN f = {} THEN 0
    ELSE LET x == CHOOSE y \in DOMAIN f : TRUE
         IN f[x] + SumFn([y \in (DOMAIN f) \ {x} |-> f[y]])

\* All orders in which a loop over the map keys S may visit them.
Orders(S) ==
    { q \in [1..Cardinality(S) -> S] : \A x \in S : \E i \in DOMAIN q : q[i] = x }

-----------------------------------------------------------------------------
(* Strings *)

Arrow == <<"-", ">">>

BiasStr == <<"b", "i", "a", "s">>

\* fmt.Sprintf("%s->%s", feature, target)
WeightKey(feature, target) == feature \o Arrow \o target

\* fmt.Sprintf("bias->%s", target)
BiasKey(target) == BiasStr \o Arrow \o target

\* fmt.Sprintf("%s->%s:%s", feature, target, category)
CatWeightKey(feature, target, category) ==
    feature \o Arrow \o target \o <<":">> \o category

\* fmt.Sprintf("bias->%s:%s", target, category)
CatBiasKey(target, category) == BiasStr \o Arrow \o target \o <<":">> \o category

\* Positions i of key with key[i] = '-' and key[i+1] = '>'.
ArrowAt(key) ==
    { i \in 1..Len(key) : key[i] = "-" /\ i + 1 <= Len(key) /\ key[i + 1] = ">" }

\* A two-element slice: the text before and after the first "->", or two
\* empty strings when the key holds no "->".
splitWeightKey(key) ==
    IF ArrowAt(key) = {} THEN << <<>>, <<>> >>
    ELSE LET i == CHOOSE j \in ArrowAt(key) : \A k \in ArrowAt(key) : j <= k
         IN << SubSeq(key, 1, i - 1), SubSeq(key, i + 2, Len(key)) >>

-----------------------------------------------------------------------------
(* Values and records *)

NumericKinds == {"int", "int32", "int64", "float32", "float64"}

F64(n) == [k |-> "float64", n |-> n, s |-> <<>>]
F32(n) == [k |-> "float32", n |-> n, s |-> <<>>]
IntV(i) == [k |-> "int", n |-> FromInt(i), s |-> <<>>]
Int64V(i) == [k |-> "int64", n |-> FromInt(i), s |-> <<>>]
Int32V(i) == [k |-> "int32", n |-> FromInt(i), s |-> <<>>]
BoolV(b) == [k |-> "bool", n |-> IF b THEN FromInt(1) ELSE 0, s |-> <<>>]
TextV(s) == [k |-> "string", n |-> 0, s |-> s]
\* A value of any other dynamic type (nil, a slice, a nested map).
Other == [k |-> "other", n |-> 0, s |-> <<>>]

\* A record (map[string]interface{}) is a function from field names to values.
Has(rec, f) == f \in DOMAIN rec

NoRecord == << >>

\* pkg/goml/utils.go: the shared coercion, [ok, v].
ConvertToFloat64(val, oneHotKey) ==
    CASE val.k \in NumericKinds -> [ok |-> TRUE, v |-> val.n]
      [] val.k = "bool" -> [ok |-> TRUE, v |-> val.n]
      [] val.k = "string" ->
            [ok |-> TRUE, v |-> IF val.s = oneHotKey THEN FromInt(1) ELSE 0]
      [] OTHER -> [ok |-> FALSE, v |-> 0]

IsSupportedNumericType(val) == val.k \in NumericKinds

IsSupportedBooleanType(val) == val.k = "bool"

\* The type switch every trainer and predictor writes inline for a feature
\* value: float64, int and string are converted, anything else is skipped.
FeatureSwitch(val, feature) ==
    CASE val.k = "float64" -> [ok |-> TRUE, v |-> val.n]
      [] val.k = "int" -> [ok |-> TRUE, v |-> val.n]
      [] val.k = "string" ->
            [ok |-> TRUE, v |-> IF val.s = feature THEN FromInt(1) ELSE 0]
      [] OTHER -> [ok |-> FALSE, v |-> 0]

\* The type switch the linear and logistic trainers write inline for a
\* target value: float64 and int are used, anything else is skipped.
TargetSwitch(val) ==
    CASE val.k = "float64" -> [ok |-> TRUE, v |-> val.n]
      [] val.k = "int" -> [ok |-> TRUE, v |-> val.n]
      [] OTHER -> [ok |-> FALSE, v |-> 0]

-----------------------------------------------------------------------------
(* Weight Store: [present, nil, m].  present = FALSE is a nil *Weights;    *)
(* nil = TRUE is a Weights whose Values map is nil.                        *)

NoWeights == [present |-> FALSE, nil |-> TRUE, m |-> << >>]

\* &Weights{Values: make(map[string]interface{})}
EmptyWeights == [present |-> TRUE, nil |-> FALSE, m |-> << >>]

\* Weights.Get: whether the key exists.
WExists(w, key) == key \in DOMAIN w.m

\* Weights.GetFloat: [ok, v].  A float64 is returned; a stored value of any
\* other JSON type is not.  (int and int64 never occur: Set stores float64
\* and json.Unmarshal decodes every number as float64.)
GetFloat(w, key) ==
    IF key \notin DOMAIN w.m THEN [ok |-> FALSE, v |-> 0]
    ELSE IF w.m[key].k \in {"float64", "int", "int64"}
         THEN [ok |-> TRUE, v |-> w.m[key].n]
         ELSE [ok |-> FALSE, v |-> 0]

\* Weights.Set on a non-nil Values map (on a nil map Go panics: the callers
\* below test w.nil before they write).
WSet(w, key, n) ==
    [w EXCEPT !.m = [x \in (DOMAIN w.m) \cup {key} |->
                        IF x = key THEN F64(n) ELSE w.m[x]]]

\* A variant of the setup step that sets the key to zero whether or not it
\* exists.
WEnsureResets(w, key) == WSet(w, key, 0)

\* "if _, exists := weights.Get(key); !exists { weights.Set(key, 0.0) }"
WEnsure(w, key) == IF WExists(w, key) THEN w ELSE WSet(w, key, 0)

RECURSIVE WEnsureAll(_, _)
WEnsureAll(w, keys) ==
    IF keys = {} THEN w
    ELSE LET x == CHOOSE y \in keys : TRUE
         IN WEnsureAll(WEnsure(w, x), keys \ {x})


-----------------------------------------------------------------------------
(* Config: [LearningRate, Epochs, BatchSize, Regularize, Tolerance]; the   *)
(* three float64 fields are fixed-point numbers.                           *)

\* The float64 literal num / den.
Fix(num, den) == TruncDiv(num * Scale, den)

DefaultConfig ==
    [LearningRate |-> Fix(1, 100), Epochs |-> 100, BatchSize |-> 32,
     Regularize |-> Fix(1, 10000), Tolerance |-> Fix(1, 10000)]

-----------------------------------------------------------------------------
(* Linear Trainer/Predictor.  A training context cx is                     *)
(*   [ins, outs, feats, targs, cfg, bs, be]: the records, the order in     *)
(*   which the loops visit the feature names and the target names, the     *)
(*   Config and the current batch [bs, be) (0-based, as in the code).      *)

\* Keys of the first input record and of the first output record.
FeatureNames(ins) == DOMAIN ins[1]

TargetNames(outs) == DOMAIN outs[1]

\* Sum of w * value over the features f (a set) that have a float64 weight
\* for the target and a convertible value in the record: the inner loop of
\* the trainers, of calculateMSE and of calculateLogLoss.
WeightedSum(w, rec, feats, target) ==
    SumFn([f \in feats |->
              LET g == GetFloat(w, WeightKey(f, target))
              IN IF ~g.ok \/ ~Has(rec, f) THEN 0
                 ELSE LET c == FeatureSwitch(rec[f], f)
                      IN IF c.ok THEN FMul(g.v, c.v) ELSE 0])

\* Linear prediction for one sample: weighted sum plus the bias if it exists.
LinearOutput(w, rec, feats, target) ==
    WeightedSum(w, rec, feats, target) + GetFloat(w, BiasKey(target)).v

\* featureMeans: the mean of the float64 and int values of a feature over
\* all inputs, [ok, v]; ok is FALSE when no input has such a value.
FeatureMean(ins, f) ==
    LET I == { i \in 1..Len(ins) : Has(ins[i], f) /\ ins[i][f].k \in {"float64", "int"} }
    IN IF I = {} THEN [ok |-> FALSE, v |-> 0]
       ELSE [ok |-> TRUE,
             v |-> TruncDiv(SumFn([i \in I |-> ins[i][f].n]), Cardinality(I))]

\* The feature value the linear gradient uses: a float64 or int is divided
\* by the feature mean when the mean is non-zero.
NormalizedFeature(ins, i, f) ==
    LET val == ins[i][f]
        mean == FeatureMean(ins, f)
    IN IF val.k \in {"float64", "int"}
       THEN [ok |-> TRUE,
             v |-> IF mean.ok /\ mean.v # 0 THEN FDiv(val.n, mean.v) ELSE val.n]
       ELSE FeatureSwitch(val, f)

\* Samples i (1-based) of the batch [bs, be).
BatchRows(cx) == (cx.bs + 1)..cx.be

\* The output record has the target with a float64 or int value.
HasActual(cx, i, target) ==
    Has(cx.outs[i], target) /\ TargetSwitch(cx.outs[i][target]).ok

\* calculateMSE
calculateMSE(w, cx) ==
    LET P == { p \in (1..Len(cx.ins)) \X (DOMAIN cx.outs[1]) :
                 p[1] \in DOMAIN cx.outs /\ HasActual(cx, p[1], p[2]) }
        Err(p) == LinearOutput(w, cx.ins[p[1]], FeatureNames(cx.ins), p[2])
                     - TargetSwitch(cx.outs[p[1]][p[2]]).v
    IN IF P = {} THEN 0
       ELSE TruncDiv(SumFn([p \in P |-> FMul(Err(p), Err(p))]), Cardinality(P))

\* One weight update of trainLinearModel: feature f, target t, batch of cx.
LinearWeightStep(w, cx, f, t) ==
    LET Rows == { i \in BatchRows(cx) :
                    /\ Has(cx.ins[i], f)
                    /\ NormalizedFeature(cx.ins, i, f).ok
                    /\ HasActual(cx, i, t) }
        gsum == SumFn([i \in Rows |->
                    FMul(LinearOutput(w, cx.ins[i], FeatureNames(cx.ins), t)
                            - TargetSwitch(cx.outs[i][t]).v,
                         NormalizedFeature(cx.ins, i, f).v)])
        gradient == TruncDiv(gsum, cx.be - cx.bs)
        cur == GetFloat(w, WeightKey(f, t)).v
    IN WSet(w, WeightKey(f, t),
            cur - FMul(cx.cfg.LearningRate, gradient + FMul(cx.cfg.Regularize, cur)))

\* The bias update of trainLinearModel for target t.
LinearBiasStep(w, cx, t) ==
    LET Rows == { i \in BatchRows(cx) : HasActual(cx, i, t) }
        gsum == SumFn([i \in Rows |->
                    LinearOutput(w, cx.ins[i], FeatureNames(cx.ins), t)
                       - TargetSwitch(cx.outs[i][t]).v])
        gradient == TruncDiv(gsum, cx.be - cx.bs)
    IN WSet(w, BiasKey(t),
            GetFloat(w, BiasKey(t)).v - FMul(cx.cfg.LearningRate, gradient))

RECURSIVE LinearFeatures(_, _, _, _)
\* "for _, feature := range features" from position k on.
LinearFeatures(w, cx, t, k) ==
    IF k > Len(cx.feats) THEN w
    ELSE LinearFeatures(LinearWeightStep(w, cx, cx.feats[k], t), cx, t, k + 1)

RECURSIVE LinearTargets(_, _, _)
\* "for _, target := range targets" from position j on.
LinearTargets(w, cx, j) ==
    IF j > Len(cx.targs) THEN w
    ELSE LinearTargets(
            LinearBiasStep(LinearFeatures(w, cx, cx.targs[j], 1), cx, cx.targs[j]),
            cx, j + 1)

RECURSIVE LinearBatches(_, _, _)
\* "for batchStart := ...; batchStart < len(inputs); batchStart += BatchSize"
\* (BatchSize >= 1: TrainLoops tests it before the loop is entered).
LinearBatches(w, cx, batchStart) ==
    IF batchStart >= Len(cx.ins) THEN w
    ELSE LinearBatches(
            LinearTargets(w, [cx EXCEPT !.bs = batchStart,
                                        !.be = Min(batchStart + cx.cfg.BatchSize,
                                                   Len(cx.ins))], 1),
            cx, batchStart + cx.cfg.BatchSize)

\* One pass of the epoch loop on the loop state [w, done]; done says that
\* the loop has ended: the convergence check broke out of it, or the epoch
\* left the weights unchanged (an epoch is a function of the weights it
\* starts from, so every later epoch leaves them unchanged as well).
LinearEpoch(st, cx) ==
    IF st.done THEN st
    ELSE LET prevMSE == calculateMSE(st.w, cx)
             w2 == LinearBatches(st.w, cx, 0)
             currentMSE == calculateMSE(w2, cx)
         IN [w |-> w2,
             done |-> Abs(prevMSE - currentMSE) < cx.cfg.Tolerance \/ w2 = st.w]

RECURSIVE LinearRun(_, _, _)
\* n passes of the epoch loop: the first half of them, then the rest.
LinearRun(st, cx, n) ==
    IF n <= 0 THEN st
    ELSE IF n = 1 THEN LinearEpoch(st, cx)
    ELSE LET half == LinearRun(st, cx, n \div 2)
         IN IF half.done THEN half ELSE LinearRun(half, cx, n - (n \div 2))

\* "for epoch := 0; epoch < config.Epochs; epoch++"
LinearEpochs(w, cx) == LinearRun([w |-> w, done |-> FALSE], cx, cx.cfg.Epochs).w

\* The keys trainLinearModel and trainLogisticModel create before training.
LinearKeys(ins, outs) ==
    { WeightKey(f, t) : f \in FeatureNames(ins), t \in TargetNames(outs) }
        \cup { BiasKey(t) : t \in TargetNames(outs) }

\* The batch loop of the linear and logistic trainers never ends when it is
\* entered with BatchSize <= 0: batchStart never reaches len(inputs).
TrainLoops(ins, cfg) == cfg.Epochs > 0 /\ Len(ins) > 0 /\ cfg.BatchSize <= 0

\* Whether a trainer writes the Weight Store: Weights.Set on a nil Values
\* map panics ("assignment to entry in nil map").
SetPanics(w, keys) == w.nil /\ keys # {}

NewContext(ins, outs, feats, targs, cfg) ==
    [ins |-> ins, outs |-> outs, feats |-> feats, targs |-> targs, cfg |-> cfg,
     bs |-> 0, be |-> 0]

\* How a call ends: it returns, it panics, or it never returns.
Returned(err, w) == [exit |-> "return", err |-> err, w |-> w]

Panicked(w) == [exit |-> "panic", err |-> "nil", w |-> w]

Hung(w) == [exit |-> "hang", err |-> "nil", w |-> w]

\* trainLinearModel: [exit, err, w].
trainLinearModel(ins, outs, w, cfg, feats, targs) ==
    IF Len(ins) = 0 THEN Returned("ErrInvalidInput", w)
    ELSE IF Len(outs) = 0 THEN Returned("ErrInvalidOutput", w)
    ELSE IF SetPanics(w, LinearKeys(ins, outs)) THEN Panicked(w)
    ELSE IF TrainLoops(ins, cfg) THEN Hung(WEnsureAll(w, LinearKeys(ins, outs)))
    ELSE Returned("nil",
                  LinearEpochs(WEnsureAll(w, LinearKeys(ins, outs)),
                               NewContext(ins, outs, feats, targs, cfg)))

\* The target names predictLinearModel and predictLogisticModel rebuild from
\* the weight keys: the second part of every key (len(parts) is always 2).
TargetsOfKeys(w) == { splitWeightKey(key)[2] : key \in DOMAIN w.m }

\* predictLinearModel: the result record.
predictLinearModel(input, w) ==
    [t \in TargetsOfKeys(w) |-> F64(LinearOutput(w, input, DOMAIN input, t))]


-----------------------------------------------------------------------------
(* Logistic Trainer/Predictor *)

One == FromInt(1)

\* math.Exp(-d) for d >= 0, as the rational 1 / (1 + d): 1 at 0, positive,
\* decreasing.
ExpNeg(d) == FDiv(One, One + d)

\* sigmoid(z) = 1 / (1 + exp(-z)); for z < 0, exp(-z) = 1 / exp(-|z|).
sigmoid(z) ==
    IF z >= 0 THEN FDiv(One, One + ExpNeg(z))
    ELSE FDiv(One, One + One + Abs(z))

\* math.Log(p) for 0 <= p <= 1, as the rational 2 (p - 1) / (p + 1).
Ln(p) == FDiv(2 * (p - One), p + One)

\* The clipping constants 0.0001 and 0.9999 of calculateLogLoss.
ClipLo == TruncDiv(Scale, 10000)

ClipHi == TruncDiv(9999 * Scale, 10000)

LogisticOutput(w, rec, feats, target) == sigmoid(LinearOutput(w, rec, feats, target))

\* calculateLogLoss
calculateLogLoss(w, cx) ==
    LET P == { p \in (1..Len(cx.ins)) \X (DOMAIN cx.outs[1]) :
                 p[1] \in DOMAIN cx.outs /\ HasActual(cx, p[1], p[2]) }
        Loss(p) ==
            LET prediction == LogisticOutput(w, cx.ins[p[1]], FeatureNames(cx.ins), p[2])
                clipped == IF prediction > ClipHi THEN ClipHi
                           ELSE IF prediction < ClipLo THEN ClipLo ELSE prediction
                actual == TargetSwitch(cx.outs[p[1]][p[2]]).v
            IN -(FMul(actual, Ln(clipped)) + FMul(One - actual, Ln(One - clipped)))
    IN IF P = {} THEN 0
       ELSE TruncDiv(SumFn([p \in P |-> Loss(p)]), Cardinality(P))

\* One weight update of trainLogisticModel (no mean normalization).
LogisticWeightStep(w, cx, f, t) ==
    LET Rows == { i \in BatchRows(cx) :
                    /\ Has(cx.ins[i], f)
                    /\ FeatureSwitch(cx.ins[i][f], f).ok
                    /\ HasActual(cx, i, t) }
        gsum == SumFn([i \in Rows |->
                    FMul(LogisticOutput(w, cx.ins[i], FeatureNames(cx.ins), t)
                            - TargetSwitch(cx.outs[i][t]).v,
                         FeatureSwitch(cx.ins[i][f], f).v)])
        gradient == TruncDiv(gsum, cx.be - cx.bs)
        cur == GetFloat(w, WeightKey(f, t)).v
    IN WSet(w, WeightKey(f, t),
            cur - FMul(cx.cfg.LearningRate, gradient + FMul(cx.cfg.Regularize, cur)))

\* The bias update of trainLogisticModel for target t.
LogisticBiasStep(w, cx, t) ==
    LET Rows == { i \in BatchRows(cx) : HasActual(cx, i, t) }
        gsum == SumFn([i \in Rows |->
                    LogisticOutput(w, cx.ins[i], FeatureNames(cx.ins), t)
                       - TargetSwitch(cx.outs[i][t]).v])
        gradient == TruncDiv(gsum, cx.be - cx.bs)
    IN WSet(w, BiasKey(t),
            GetFloat(w, BiasKey(t)).v - FMul(cx.cfg.LearningRate, gradient))

RECURSIVE LogisticFeatures(_, _, _, _)
LogisticFeatures(w, cx, t, k) ==
    IF k > Len(cx.feats) THEN w
    ELSE LogisticFeatures(LogisticWeightStep(w, cx, cx.feats[k], t), cx, t, k + 1)

RECURSIVE LogisticTargets(_, _, _)
LogisticTargets(w, cx, j) ==
    IF j > Len(cx.targs) THEN w
    ELSE LogisticTargets(
            LogisticBiasStep(LogisticFeatures(w, cx, cx.targs[j], 1), cx, cx.targs[j]),
            cx, j + 1)

RECURSIVE LogisticBatches(_, _, _)
LogisticBatches(w, cx, batchStart) ==
    IF batchStart >= Len(cx.ins) THEN w
    ELSE LogisticBatches(
            LogisticTargets(w, [cx EXCEPT !.bs = batchStart,
                                          !.be = Min(batchStart + cx.cfg.BatchSize,
                                                     Len(cx.ins))], 1),
            cx, batchStart + cx.cfg.BatchSize)

LogisticEpoch(st, cx) ==
    IF st.done THEN st
    ELSE LET prevLoss == calculateLogLoss(st.w, cx)
             w2 == LogisticBatches(st.w, cx, 0)
             currentLoss == calculateLogLoss(w2, cx)
         IN [w |-> w2,
             done |-> Abs(prevLoss - currentLoss) < cx.cfg.Tolerance \/ w2 = st.w]

RECURSIVE LogisticRun(_, _, _)
LogisticRun(st, cx, n) ==
    IF n <= 0 THEN st
    ELSE IF n = 1 THEN LogisticEpoch(st, cx)
    ELSE LET half == LogisticRun(st, cx, n \div 2)
         IN IF half.done THEN half ELSE LogisticRun(half, cx, n - (n \div 2))

LogisticEpochs(w, cx) == LogisticRun([w |-> w, done |-> FALSE], cx, cx.cfg.Epochs).w

\* trainLogisticModel: [exit, err, w].
trainLogisticModel(ins, outs, w, cfg, feats, targs) ==
    IF Len(ins) = 0 THEN Returned("ErrInvalidInput", w)
    ELSE IF Len(outs) = 0 THEN Returned("ErrInvalidOutput", w)
    ELSE IF SetPanics(w, LinearKeys(ins, outs)) THEN Panicked(w)
    ELSE IF TrainLoops(ins, cfg) THEN Hung(WEnsureAll(w, LinearKeys(ins, outs)))
    ELSE Returned("nil",
                  LogisticEpochs(WEnsureAll(w, LinearKeys(ins, outs)),
                                 NewContext(ins, outs, feats, targs, cfg)))

\* predictLogisticModel: the result record.
predictLogisticModel(input, w) ==
    [t \in TargetsOfKeys(w) |-> F64(LogisticOutput(w, input, DOMAIN input, t))]


-----------------------------------------------------------------------------
(* Text of a value: fmt.Sprintf("%v", val), and the scans that read it back *)

Digits == <<"0", "1", "2", "3", "4", "5", "6", "7", "8", "9">>

DigitChars == { Digits[i] : i \in DOMAIN Digits }

DigitValue(c) == (CHOOSE i \in DOMAIN Digits : Digits[i] = c) - 1

RECURSIVE NatText(_)
\* Decimal text of a natural number.
NatText(n) ==
    IF n < 10 THEN << Digits[n + 1] >>
    ELSE NatText(n \div 10) \o << Digits[(n % 10) + 1] >>

\* The most fraction digits a text carries.
MaxFracDigits == 4

RECURSIVE FracText(_, _)
\* The first d decimal digits of the fraction r / Scale, 0 <= r < Scale,
\* without trailing zeros.
FracText(r, d) ==
    IF r = 0 \/ d = 0 THEN << >>
    ELSE << Digits[((r * 10) \div Scale) + 1] >> \o FracText((r * 10) % Scale, d - 1)

\* %v of a number n / Scale: "100", "-2", "0.5".
NumberText(n) ==
    (IF n < 0 THEN <<"-">> ELSE << >>)
        \o NatText(Abs(n) \div Scale)
        \o (IF Abs(n) % Scale = 0 THEN << >> ELSE <<".">> \o FracText(Abs(n) % Scale, MaxFracDigits))

\* fmt.Sprintf("%v", val)
FormatV(val) ==
    CASE val.k = "string" -> val.s
      [] val.k = "bool" ->
            IF val.n # 0 THEN <<"t", "r", "u", "e">> ELSE <<"f", "a", "l", "s", "e">>
      [] val.k \in NumericKinds -> NumberText(val.n)
      [] OTHER -> <<"<", "n", "i", "l", ">">>

\* Length of the longest run of digits of s that starts at position i.
RECURSIVE DigitRun(_, _)
DigitRun(s, i) ==
    IF i > Len(s) \/ s[i] \notin DigitChars THEN 0 ELSE 1 + DigitRun(s, i + 1)

RECURSIVE DigitsValue(_, _, _)
\* Value of the n digits of s from position i.
DigitsValue(s, i, n) ==
    IF n = 0 THEN 0
    ELSE DigitsValue(s, i, n - 1) * 10 + DigitValue(s[i + n - 1])

SignLen(s) == IF Len(s) > 0 /\ s[1] \in {"+", "-"} THEN 1 ELSE 0

SignOf(s) == IF Len(s) > 0 /\ s[1] = "-" THEN -1 ELSE 1

\* stringToInt: fmt.Sscanf(s, "%d", &v) reads an optional sign and the
\* digits that follow, and ignores the rest of s: [ok, v].
stringToInt(s) ==
    LET n == DigitRun(s, SignLen(s) + 1)
    IN IF n = 0 THEN [ok |-> FALSE, v |-> 0]
       ELSE [ok |-> TRUE, v |-> SignOf(s) * DigitsValue(s, SignLen(s) + 1, n)]

RECURSIVE Pow10(_)
Pow10(n) == IF n = 0 THEN 1 ELSE 10 * Pow10(n - 1)

\* stringToFloat64: fmt.Sscanf(s, "%f", &v) reads an optional sign, digits,
\* and an optional point with digits; at least one digit is needed.  The
\* value is a fixed-point number.  (Exponents, "nan" and "inf" are left out:
\* no text of the model holds them.)
stringToFloat64(s) ==
    LET a == SignLen(s) + 1
        n == DigitRun(s, a)
        point == a + n <= Len(s) /\ s[a + n] = "."
        m == IF point THEN DigitRun(s, a + n + 1) ELSE 0
    IN IF n + m = 0 THEN [ok |-> FALSE, v |-> 0]
       ELSE [ok |-> TRUE,
             v |-> SignOf(s) * (FromInt(DigitsValue(s, a, n))
                      + TruncDiv(DigitsValue(s, a + n + 1, m) * Scale, Pow10(m)))]

isNumeric(s) == stringToFloat64(s).ok \/ stringToInt(s).ok

\* The value predictCategoricalModel returns for the winning category text.
CategoryValue(best) ==
    IF isNumeric(best)
    THEN IF \E i \in DOMAIN best : best[i] = "."
         THEN IF stringToFloat64(best).ok THEN F64(stringToFloat64(best).v)
              ELSE TextV(best)
         ELSE IF stringToInt(best).ok
              THEN [k |-> "int", n |-> FromInt(stringToInt(best).v), s |-> << >>]
              ELSE TextV(best)
    ELSE TextV(best)


-----------------------------------------------------------------------------
(* Categorical Trainer/Predictor.  The categories of a descriptor are a Go *)
(* map [nil, m] with m[target][category] = index.                          *)

NilMap == [nil |-> TRUE, m |-> << >>]

EmptyMap == [nil |-> FALSE, m |-> << >>]

\* m with key x set to v.
MapPut(m, x, v) == [y \in (DOMAIN m) \cup {x} |-> IF y = x THEN v ELSE m[y]]

\* The category texts of a target in the outputs (the keys of categoryCount).
SeenCategories(outs, target) ==
    { FormatV(outs[i][target]) : i \in { j \in 1..Len(outs) : Has(outs[j], target) } }

\* Position of x in the order q.
Rank(q, x) == CHOOSE i \in DOMAIN q : q[i] = x

\* A variant of "Assign indices to categories" that numbers the categories
\* seen in the outputs from 0, those that have an index included.
AssignIndicesAfresh(old, seen, corder) ==
    [c \in (DOMAIN old) \cup seen |->
        IF c \in seen
        THEN Cardinality({ d \in seen : Rank(corder, d) < Rank(corder, c) })
        ELSE old[c]]

\* "Assign indices to categories" for one target: idx starts at 0 and counts
\* the categories that are new, in the order the loop over categoryCount
\* visits them (corder, an order of the category texts of the target).
AssignIndices(old, seen, corder) ==
    LET new == seen \ DOMAIN old
    IN [c \in (DOMAIN old) \cup new |->
           IF c \in DOMAIN old THEN old[c]
           ELSE Cardinality({ d \in new : Rank(corder, d) < Rank(corder, c) })]

\* The categories after the first loop over the targets; corder[t] is the
\* order in which the loop over categoryCount visits the categories of t.
UpdatedCategories(cats, outs, corder) ==
    [t \in (DOMAIN cats) \cup TargetNames(outs) |->
        IF t \in TargetNames(outs)
        THEN AssignIndices(IF t \in DOMAIN cats THEN cats[t] ELSE << >>,
                           SeenCategories(outs, t), corder[t])
        ELSE cats[t]]

\* Raw score of a category for a sample during training: a missing weight
\* counts as 0, a missing or unconvertible feature is skipped.
TrainScore(w, rec, feats, target, category) ==
    SumFn([f \in feats |->
              IF ~Has(rec, f) \/ ~FeatureSwitch(rec[f], f).ok THEN 0
              ELSE FMul(GetFloat(w, CatWeightKey(f, target, category)).v,
                        FeatureSwitch(rec[f], f).v)])
        + GetFloat(w, CatBiasKey(target, category)).v

\* A variant of softmax that leaves out the division by the sum.
softmaxNotNormalized(scores) ==
    LET maxScore == CHOOSE x \in { scores[c] : c \in DOMAIN scores } :
                        \A c \in DOMAIN scores : scores[c] <= x
    IN [c \in DOMAIN scores |-> ExpNeg(maxScore - scores[c])]

\* softmax over a function category -> score.
softmax(scores) ==
    LET maxScore == CHOOSE x \in { scores[c] : c \in DOMAIN scores } :
                        \A c \in DOMAIN scores : scores[c] <= x
        expScores == [c \in DOMAIN scores |-> ExpNeg(maxScore - scores[c])]
        sumExp == SumFn(expScores)
    IN [c \in DOMAIN scores |-> FDiv(expScores[c], sumExp)]

RECURSIVE CatFeatureUpdates(_, _, _, _, _, _, _)
\* The weight updates of one category for one sample, features F left.
CatFeatureUpdates(w, cfg, rec, F, target, category, gradient) ==
    IF F = {} THEN w
    ELSE LET f == CHOOSE x \in F : TRUE
             key == CatWeightKey(f, target, category)
             cur == GetFloat(w, key).v
             w2 == IF ~Has(rec, f) \/ ~FeatureSwitch(rec[f], f).ok THEN w
                   ELSE WSet(w, key,
                          cur - FMul(cfg.LearningRate,
                                     FMul(gradient, FeatureSwitch(rec[f], f).v)
                                        + FMul(cfg.Regularize, cur)))
         IN CatFeatureUpdates(w2, cfg, rec, F \ {f}, target, category, gradient)

RECURSIVE CatCategoryUpdates(_, _, _, _, _, _, _, _)
\* The updates of one sample, categories C left; probs and actual are fixed
\* before the first update.
CatCategoryUpdates(w, cfg, rec, feats, target, C, probs, actual) ==
    IF C = {} THEN w
    ELSE LET c == CHOOSE x \in C : TRUE
             gradient == probs[c] - (IF c = actual THEN One ELSE 0)
             w1 == CatFeatureUpdates(w, cfg, rec, feats, target, c, gradient)
             w2 == WSet(w1, CatBiasKey(target, c),
                        GetFloat(w1, CatBiasKey(target, c)).v
                           - FMul(cfg.LearningRate, gradient))
         IN CatCategoryUpdates(w2, cfg, rec, feats, target, C \ {c}, probs, actual)

RECURSIVE CatSamples(_, _, _, _, _, _, _)
\* "for i := range inputs" from sample i on (1-based).
CatSamples(w, cfg, ins, outs, target, C, i) ==
    IF i > Len(ins) THEN w
    ELSE LET feats == FeatureNames(ins)
             probs == softmax([c \in C |-> TrainScore(w, ins[i], feats, target, c)])
             w2 == IF ~Has(outs[i], target) THEN w
                   ELSE CatCategoryUpdates(w, cfg, ins[i], feats, target, C, probs,
                                           FormatV(outs[i][target]))
         IN CatSamples(w2, cfg, ins, outs, target, C, i + 1)

\* A variant of the epoch loop that ends after a pass when the Config has a
\* Tolerance above zero.
CatEpochStops(st, cfg, ins, outs, target, C) ==
    IF st.done THEN st
    ELSE [w |-> CatSamples(st.w, cfg, ins, outs, target, C, 1),
          done |-> cfg.Tolerance > 0]

\* One pass of the epoch loop of one target on the loop state [w, done]: no
\* batches, no convergence check (done: the epoch left the weights
\* unchanged, as above).
CatEpoch(st, cfg, ins, outs, target, C) ==
    IF st.done THEN st
    ELSE LET w2 == CatSamples(st.w, cfg, ins, outs, target, C, 1)
         IN [w |-> w2, done |-> w2 = st.w]

RECURSIVE CatRun(_, _, _, _, _, _, _)
CatRun(st, cfg, ins, outs, target, C, n) ==
    IF n <= 0 THEN st
    ELSE IF n = 1 THEN CatEpoch(st, cfg, ins, outs, target, C)
    ELSE LET half == CatRun(st, cfg, ins, outs, target, C, n \div 2)
         IN IF half.done THEN half
            ELSE CatRun(half, cfg, ins, outs, target, C, n - (n \div 2))

CatEpochs(w, cfg, ins, outs, target, C) ==
    CatRun([w |-> w, done |-> FALSE], cfg, ins, outs, target, C, cfg.Epochs).w

\* The keys created for a target with the categories C.
CategoricalKeys(ins, target, C) ==
    { CatWeightKey(f, target, c) : f \in FeatureNames(ins), c \in C }
        \cup { CatBiasKey(target, c) : c \in C }

\* The targets that are trained: those with two or more categories.
TrainedTargets(cats, outs) ==
    { t \in TargetNames(outs) : Cardinality(DOMAIN cats[t]) > 1 }

RECURSIVE CatTargets(_, _, _, _, _, _, _)
\* The second loop over the targets, from position j of targs on.
CatTargets(w, cfg, ins, outs, cats, targs, j) ==
    IF j > Len(targs) THEN w
    ELSE LET t == targs[j]
             C == DOMAIN cats[t]
             w2 == IF Cardinality(C) <= 1 THEN w
                   ELSE CatEpochs(WEnsureAll(w, CategoricalKeys(ins, t, C)),
                                  cfg, ins, outs, t, C)
         IN CatTargets(w2, cfg, ins, outs, cats, targs, j + 1)

\* trainCategoricalModel: [exit, err, w, cats]; cats is the descriptor's
\* Categories map after the call (a nil map is replaced by an empty one
\* before it is written).
trainCategoricalModel(ins, outs, w, cfg, cats, targs, corder) ==
    IF Len(ins) = 0 THEN [exit |-> "return", err |-> "ErrInvalidInput", w |-> w, cats |-> cats]
    ELSE IF Len(outs) = 0 THEN [exit |-> "return", err |-> "ErrInvalidOutput", w |-> w, cats |-> cats]
    ELSE LET cats2 == UpdatedCategories(cats.m, outs, corder)
             after == [nil |-> FALSE, m |-> cats2]
         IN IF w.nil /\ TrainedTargets(cats2, outs) # {}
            THEN [exit |-> "panic", err |-> "nil", w |-> w, cats |-> after]
            ELSE [exit |-> "return", err |-> "nil",
                  w |-> CatTargets(w, cfg, ins, outs, cats2, targs, 1),
                  cats |-> after]

\* Raw score of a category for a prediction: only features of the input
\* with a float64 weight count; the bias counts when it exists.
PredictScore(w, input, target, category) ==
    SumFn([f \in DOMAIN input |->
              IF ~GetFloat(w, CatWeightKey(f, target, category)).ok
                    \/ ~FeatureSwitch(input[f], f).ok THEN 0
              ELSE FMul(GetFloat(w, CatWeightKey(f, target, category)).v,
                        FeatureSwitch(input[f], f).v)])
        + GetFloat(w, CatBiasKey(target, category)).v

\* The probabilities predictCategoricalModel computes for a target.
TargetProbabilities(w, input, cats, target) ==
    softmax([c \in DOMAIN cats[target] |-> PredictScore(w, input, target, c)])

\* The categories the loop "if prob > bestProb" can end with: bestProb
\* starts at 0, and the loop keeps the first category of the highest
\* probability in the order the map is visited, so every category of the
\* highest probability is possible.  The empty set when no probability is
\* positive.
BestCategories(probs) ==
    { c \in DOMAIN probs : probs[c] > 0 /\ \A d \in DOMAIN probs : probs[d] <= probs[c] }

ProbsKey(target) == target \o <<"_", "p", "r", "o", "b", "s">>

ProbsValue(probs) == [k |-> "probs", n |-> 0, s |-> << >>, p |-> probs]


\* The targets predictCategoricalModel visits: those with a category.
PredictedTargets(cats) == { t \in DOMAIN cats : DOMAIN cats[t] # {} }

\* What the loop over the probabilities can leave in bestCategory, per
\* target: a category of the highest probability, or "" when there is none.
BestChoices(w, input, cats) ==
    [t \in PredictedTargets(cats) |->
        LET best == BestCategories(TargetProbabilities(w, input, cats, t))
        IN IF best = {} THEN { << >> } ELSE best]

\* All ways to choose one element of each set of the function S of sets.
Choices(S) == { f \in [DOMAIN S -> UNION { S[x] : x \in DOMAIN S }] :
                  \A x \in DOMAIN S : f[x] \in S[x] }

RECURSIVE CatResult(_, _, _, _, _, _, _)
\* The result map after the targets from position j of order on are
\* stored: nothing is stored for a target whose bestCategory is "".
CatResult(res, w, input, cats, pick, order, j) ==
    IF j > Len(order) THEN res
    ELSE LET t == order[j]
             res2 == IF pick[t] = << >> THEN res
                     ELSE MapPut(MapPut(res, t, CategoryValue(pick[t])),
                                 ProbsKey(t),
                                 ProbsValue(TargetProbabilities(w, input, cats, t)))
         IN CatResult(res2, w, input, cats, pick, order, j + 1)

\* predictCategoricalModel: the set of results a call can return (cats is
\* the m of the Categories map; a nil map is visited as an empty one).
predictCategoricalModel(input, w, cats) ==
    { CatResult(NoRecord, w, input, cats, pick, order, 1) :
        pick \in Choices(BestChoices(w, input, cats)),
        order \in Orders(PredictedTargets(cats)) }

-----------------------------------------------------------------------------
(* Mixed Trainer/Predictor.  Targets is the Go map [nil, m] of the         *)
(* descriptor, m[target] in {"numeric", "boolean", "categorical"}.         *)

\* The bucket of a field of the first output record; "skip" for a value of
\* an unknown type.
MixedBucket(val) ==
    CASE val.k = "int" -> IF val.n = 0 \/ val.n = One THEN "boolean" ELSE "numeric"
      [] val.k = "float64" -> IF val.n = 0 \/ val.n = One THEN "boolean" ELSE "numeric"
      [] val.k \in {"int64", "int32", "float32"} -> "numeric"
      [] val.k = "bool" -> "boolean"
      [] val.k = "string" -> "categorical"
      [] OTHER -> "skip"

\* The fields of the first output record that go to a bucket.
BucketFields(outs, bucket) ==
    { key \in DOMAIN outs[1] : MixedBucket(outs[1][key]) = bucket }

\* numericOutputs, booleanOutputs, categoricalOutputs: every output record
\* restricted to the fields of the bucket that it holds.
BucketOutputs(outs, bucket) ==
    [i \in 1..Len(outs) |->
        [key \in BucketFields(outs, bucket) \cap DOMAIN outs[i] |-> outs[i][key]]]

\* model.Targets after the classification loop.
UpdatedTargets(targets, outs) ==
    [key \in (DOMAIN targets) \cup (DOMAIN outs[1] \ BucketFields(outs, "skip")) |->
        IF key \in DOMAIN outs[1] /\ MixedBucket(outs[1][key]) # "skip"
        THEN MixedBucket(outs[1][key])
        ELSE targets[key]]

\* The order q restricted to the elements of S.
RECURSIVE SubOrder(_, _)
SubOrder(q, S) ==
    IF q = << >> THEN << >>
    ELSE (IF Head(q) \in S THEN << Head(q) >> ELSE << >>) \o SubOrder(Tail(q), S)

\* The linear trainer on the numeric fields, when there are any: [exit, err, w].
MixedNumeric(ins, outs, w, cfg, ord) ==
    IF BucketFields(outs, "numeric") # {}
    THEN trainLinearModel(ins, BucketOutputs(outs, "numeric"), w, cfg, ord.feats1,
                          SubOrder(ord.targs, BucketFields(outs, "numeric")))
    ELSE Returned("nil", w)

\* The categorical trainer on the text fields, after the linear trainer
\* ended as r1: [exit, err, w, cats].
MixedCategorical(r1, ins, outs, cfg, cats, ord) ==
    IF r1.exit = "return" /\ r1.err = "nil" /\ BucketFields(outs, "categorical") # {}
    THEN trainCategoricalModel(ins, BucketOutputs(outs, "categorical"), r1.w, cfg, cats,
                               SubOrder(ord.targs, BucketFields(outs, "categorical")),
                               ord.cats)
    ELSE [exit |-> r1.exit, err |-> r1.err, w |-> r1.w, cats |-> cats]

\* The logistic trainer on the boolean fields, after the categorical
\* trainer ended as r2: [exit, err, w].
MixedBoolean(r2, ins, outs, cfg, ord) ==
    IF r2.exit = "return" /\ r2.err = "nil" /\ BucketFields(outs, "boolean") # {}
    THEN trainLogisticModel(ins, BucketOutputs(outs, "boolean"), r2.w, cfg, ord.feats2,
                            SubOrder(ord.targs, BucketFields(outs, "boolean")))
    ELSE [exit |-> r2.exit, err |-> r2.err, w |-> r2.w]

MixedResult(r2, r3, targets) ==
    [exit |-> r3.exit, err |-> r3.err, w |-> r3.w, cats |-> r2.cats, targets |-> targets]

MixedLast(r2, ins, outs, cfg, ord, targets) ==
    MixedResult(r2, MixedBoolean(r2, ins, outs, cfg, ord), targets)

\* trainMixedModel: [exit, err, w, cats, targets].  ord is the record of the
\* loop orders: feats1 and feats2 (the features, for the linear and for the
\* logistic trainer), targs (the targets) and cats (the category texts).
\* Writing model.Targets panics when the map is nil.
trainMixedModel(ins, outs, w, cfg, cats, targets, ord) ==
    IF Len(outs) = 0
    THEN [exit |-> "return", err |-> "ErrInvalidOutput", w |-> w,
          cats |-> cats, targets |-> targets]
    ELSE IF targets.nil /\ DOMAIN outs[1] # BucketFields(outs, "skip")
    THEN [exit |-> "panic", err |-> "nil", w |-> w, cats |-> cats, targets |-> targets]
    ELSE MixedLast(MixedCategorical(MixedNumeric(ins, outs, w, cfg, ord),
                                    ins, outs, cfg, cats, ord),
                   ins, outs, cfg, ord,
                   [targets EXCEPT !.m = UpdatedTargets(targets.m, outs)])

\* The entries of m whose keys are in S.
Restrict(m, S) == [x \in (DOMAIN m) \cap S |-> m[x]]

\* m1 overridden by m2.
Override(m1, m2) ==
    [x \in (DOMAIN m1) \cup (DOMAIN m2) |-> IF x \in DOMAIN m2 THEN m2[x] ELSE m1[x]]

\* The fields recorded in Targets with the given type.
FieldsOfType(targets, type) == { k \in DOMAIN targets : targets[k] = type }

\* "if prob >= 0.5 { true } else { false }"
Threshold(val) == [k |-> "bool", n |-> IF 2 * val.n >= One THEN One ELSE 0, s |-> << >>]

\* predictMixedModel: the set of results a call can return (cats and
\* targets are the m of the descriptor's maps).
predictMixedModel(input, w, cats, targets) ==
    { LET numeric == Restrict(predictLinearModel(input, w),
                              FieldsOfType(targets, "numeric"))
          catKeys == (DOMAIN catPred) \cap FieldsOfType(targets, "categorical")
          categorical == Restrict(catPred,
                             catKeys \cup { ProbsKey(k) : k \in catKeys })
          logistic == Restrict(predictLogisticModel(input, w),
                               FieldsOfType(targets, "boolean"))
          boolean == [k \in DOMAIN logistic |-> Threshold(logistic[k])]
      IN Override(Override(numeric, categorical), boolean) :
      catPred \in predictCategoricalModel(input, w, cats) }


-----------------------------------------------------------------------------
(* Model Descriptor: [present, Type, Targets, Categories]; present = FALSE *)
(* is a nil *Model.  Parameters, Features and FeatureCategories are never  *)
(* read by a trainer or a predictor and are left out.                      *)

NoModel == [present |-> FALSE, Type |-> "", Targets |-> NilMap, Categories |-> NilMap]

NewLinearModel ==
    [present |-> TRUE, Type |-> "linear", Targets |-> NilMap, Categories |-> NilMap]

NewLogisticModel ==
    [present |-> TRUE, Type |-> "logistic", Targets |-> NilMap, Categories |-> NilMap]

NewCategoricalModel ==
    [present |-> TRUE, Type |-> "categorical", Targets |-> NilMap, Categories |-> EmptyMap]

NewMixedModel ==
    [present |-> TRUE, Type |-> "mixed", Targets |-> EmptyMap, Categories |-> EmptyMap]

\* A variant of the first loop that never sees a boolean.
HasBooleanNever(sample) == FALSE

\* A variant of the first loop in which a numeric value of 0 or 1 does not
\* count as numeric.
HasNumericNonBinary(sample) ==
    \E f \in DOMAIN sample :
        sample[f].k \in NumericKinds /\ sample[f].n \notin {0, One}

\* NewAutoModel
HasString(sample) == \E f \in DOMAIN sample : sample[f].k = "string"

HasBoolean(sample) == \E f \in DOMAIN sample : sample[f].k = "bool"

HasNumeric(sample) == \E f \in DOMAIN sample : sample[f].k \in NumericKinds

\* A variant of the second loop in which only an int can be binary; the
\* formula of C10 is checked to fail with it.
AllBinaryIntOnly(sample) ==
    \A f \in DOMAIN sample :
        sample[f].k \in {"int", "float64"}
            => (sample[f].k = "int" /\ sample[f].n \in {0, One})

\* The second loop: an int or a float64 other than 0 and 1 rules logistic
\* out; values of the other types are passed over.
AllBinary(sample) ==
    \A f \in DOMAIN sample :
        sample[f].k \in {"int", "float64"} => sample[f].n \in {0, One}

NewAutoModel(sample) ==
    IF \/ HasString(sample) /\ HasNumeric(sample)
       \/ HasString(sample) /\ HasBoolean(sample)
       \/ HasNumeric(sample) /\ HasBoolean(sample)
    THEN NewMixedModel
    ELSE IF HasString(sample) THEN NewCategoricalModel
    ELSE IF HasBoolean(sample) \/ (HasNumeric(sample) /\ AllBinary(sample))
    THEN NewLogisticModel
    ELSE NewLinearModel

\* Model.Train: [exit, err, w, cats, targets]; ord holds the loop orders.
ModelTrain(m, ins, outs, w, cfg, ord) ==
    LET plain(r) == [exit |-> r.exit, err |-> r.err, w |-> r.w,
                     cats |-> m.Categories, targets |-> m.Targets]
    IN CASE m.Type = "linear" ->
              plain(trainLinearModel(ins, outs, w, cfg, ord.feats1, ord.targs))
         [] m.Type = "logistic" ->
              plain(trainLogisticModel(ins, outs, w, cfg, ord.feats1, ord.targs))
         [] m.Type = "categorical" ->
              LET r == trainCategoricalModel(ins, outs, w, cfg, m.Categories,
                                             ord.targs, ord.cats)
              IN [exit |-> r.exit, err |-> r.err, w |-> r.w,
                  cats |-> r.cats, targets |-> m.Targets]
         [] m.Type = "mixed" ->
              trainMixedModel(ins, outs, w, cfg, m.Categories, m.Targets, ord)
         [] OTHER -> plain(Returned("ErrUnsupportedModelType", w))

\* Model.Predict: the set of [err, res] a call can return.
ModelPredict(m, input, w) ==
    CASE m.Type = "linear" -> { [err |-> "nil", res |-> predictLinearModel(input, w)] }
      [] m.Type = "logistic" -> { [err |-> "nil", res |-> predictLogisticModel(input, w)] }
      [] m.Type = "categorical" ->
           { [err |-> "nil", res |-> r] :
               r \in predictCategoricalModel(input, w, m.Categories.m) }
      [] m.Type = "mixed" ->
           { [err |-> "nil", res |-> r] :
               r \in predictMixedModel(input, w, m.Categories.m, m.Targets.m) }
      [] OTHER -> { [err |-> "ErrUnsupportedModelType", res |-> NoRecord] }

-----------------------------------------------------------------------------
(* JSON snapshots.  A text is the document it spells: wf says whether      *)
(* json.Unmarshal accepts it for the struct, an object field is [has, m].  *)

\* Model.JSON: a map with no entry (nil or empty) is omitted (omitempty).
ModelJSON(m) ==
    [wf |-> TRUE, type |-> m.Type,
     targets |-> [has |-> DOMAIN m.Targets.m # {}, m |-> m.Targets.m],
     categories |-> [has |-> DOMAIN m.Categories.m # {}, m |-> m.Categories.m]]

\* json.Unmarshal into a Model: [ok, model]; a field that is absent leaves
\* the map nil.
UnmarshalModel(text) ==
    IF ~text.wf THEN [ok |-> FALSE, model |-> NoModel]
    ELSE [ok |-> TRUE,
          model |-> [present |-> TRUE, Type |-> text.type,
                     Targets |-> [nil |-> ~text.targets.has, m |-> text.targets.m],
                     Categories |-> [nil |-> ~text.categories.has,
                                     m |-> text.categories.m]]]

\* Weights.JSON: {"values": {...}}, or {"values": null} for a nil map.
WeightsJSON(w) == [wf |-> TRUE, values |-> [has |-> ~w.nil, m |-> w.m]]

\* json.Unmarshal into a Weights: [ok, weights]; every JSON number becomes
\* a float64; "values" absent or null leaves the map nil.
UnmarshalWeights(text) ==
    IF ~text.wf THEN [ok |-> FALSE, weights |-> NoWeights]
    ELSE [ok |-> TRUE,
          weights |-> [present |-> TRUE, nil |-> ~text.values.has,
                       m |-> [key \in DOMAIN text.values.m |->
                                IF text.values.m[key].k \in NumericKinds
                                THEN F64(text.values.m[key].n)
                                ELSE text.values.m[key]]]]

-----------------------------------------------------------------------------
(* Engine.  The errors Engine makes with fmt.Errorf are named by their text. *)

ErrModelNotInitialized == "model not initialized"

ErrShapeMismatch == "number of input samples must match number of output samples"

ErrNoTrainingData == "no training data provided"

ErrWeightsNotInitialized == "weights not initialized, model not trained"

ErrWeightsNotSet == "weights not initialized"

ErrUnmarshalModel == "failed to unmarshal model"

ErrUnmarshalWeights == "failed to unmarshal weights"

ErrNoOutputData == "no output data provided"

\* A variant of New() that creates the Weight Store; the formula of C2 is
\* checked to fail with it.
NewEngineWithWeights ==
    [model |-> NoModel, weights |-> EmptyWeights, config |-> DefaultConfig]

\* New(): no descriptor, no Weight Store, the default Config.
NewEngine == [model |-> NoModel, weights |-> NoWeights, config |-> DefaultConfig]

\* A variant of NewAuto that takes the linear descriptor whatever the sample.
NewAutoEngineAlwaysLinear(sample) ==
    [model |-> NewLinearModel, weights |-> NoWeights, config |-> DefaultConfig]

\* NewAuto(outputSample)
NewAutoEngine(sample) ==
    [model |-> NewAutoModel(sample), weights |-> NoWeights, config |-> DefaultConfig]

\* The engines of a run: the engine under test and a second, fresh one.
Engines == {1, 2}

VARIABLES
    engine,     \* engine[e] = [model, weights, config]
    last,       \* last[e]: the latest call on engine e and what it returned
    called,     \* called[e]: the operations called on engine e so far
    saved,      \* the texts GetModel and GetWeights returned to the caller
    status,     \* "running", or how the process ended: "panic", "hang"
    trains,     \* number of Train calls handed to a trainer so far
    phase       \* position of the caller in its script (0: no script)

vars == << engine, last, called, saved, status, trains, phase >>

\* A call record: the operation, its argument, the error and the result it
\* returned ("panic" or "hang" for a call that does not return), and whether
\* it reached Model.Train or Model.Predict.
Call(op, arg, err, res, dispatched) ==
    [op |-> op, arg |-> arg, err |-> err, res |-> res, dispatched |-> dispatched]

NoCall == Call("none", NoRecord, "nil", NoRecord, FALSE)

\* The most Train calls of a run that reach a trainer.
MaxTrains == 1

\* The most Train calls that reach a trainer in a run that trains one
\* engine again.
MaxRetrains == 2

Init ==
    /\ engine = [e \in Engines |-> NewEngine]
    /\ last = [e \in Engines |-> NoCall]
    /\ called = [e \in Engines |-> {}]
    /\ saved = [model |-> {}, weights |-> {}]
    /\ status = "running"
    /\ trains = 0
    /\ phase = 0

\* The targets whose categories a trainer indexes.
IndexedTargets(m, outs) ==
    CASE m.Type = "categorical" -> TargetNames(outs)
      [] m.Type = "mixed" -> BucketFields(outs, "categorical")
      [] OTHER -> {}

\* The orders in which the loops of Model.Train can visit the keys of the
\* data (Go leaves the iteration order of a map open): feats1 and feats2
\* order the features, targs the targets, cats[t] the category texts of
\* target t.  With no record there is no loop.
TrainOrders(m, ins, outs) ==
    IF Len(ins) = 0 \/ Len(outs) = 0
    THEN { [feats1 |-> << >>, feats2 |-> << >>, targs |-> << >>, cats |-> << >>] }
    ELSE { [feats1 |-> f1, feats2 |-> f2, targs |-> t, cats |-> c] :
             f1 \in Orders(FeatureNames(ins)), f2 \in Orders(FeatureNames(ins)),
             t \in Orders(TargetNames(outs)),
             c \in { f \in [IndexedTargets(m, outs) ->
                              UNION { Orders(SeenCategories(outs, x)) :
                                        x \in IndexedTargets(m, outs) }] :
                       \A x \in IndexedTargets(m, outs) :
                           f[x] \in Orders(SeenCategories(outs, x)) } }

\* Variants of TrainCheck with one check moved or left out; the formulas of
\* C1, C3 and C4 are checked to fail with them.
TrainCheckLengthsFirst(en, ins, outs) ==
    IF Len(ins) # Len(outs) THEN ErrShapeMismatch
    ELSE IF ~en.model.present THEN ErrModelNotInitialized
    ELSE IF Len(ins) = 0 THEN ErrNoTrainingData
    ELSE "nil"

TrainCheckEmptyFirst(en, ins, outs) ==
    IF ~en.model.present THEN ErrModelNotInitialized
    ELSE IF Len(ins) = 0 \/ Len(outs) = 0 THEN ErrNoTrainingData
    ELSE IF Len(ins) # Len(outs) THEN ErrShapeMismatch
    ELSE "nil"

TrainCheckNoEmptyCheck(en, ins, outs) ==
    IF ~en.model.present THEN ErrModelNotInitialized
    ELSE IF Len(ins) # Len(outs) THEN ErrShapeMismatch
    ELSE "nil"

\* Engine.Train up to the call of Model.Train: the error it returns there,
\* or "nil" when the call goes on to the descriptor.
TrainCheck(en, ins, outs) ==
    IF ~en.model.present THEN ErrModelNotInitialized
    ELSE IF Len(ins) # Len(outs) THEN ErrShapeMismatch
    ELSE IF Len(ins) = 0 THEN ErrNoTrainingData
    ELSE "nil"

\* Variants of InitWeights: a Train that always starts from an empty Weight
\* Store, and a Train that does not create one; the formulas of C5 and C6
\* are checked to fail with them.
InitWeightsAlways(w) == EmptyWeights

InitWeightsNever(w) == w

\* "if e.weights == nil { e.weights = &Weights{Values: make(...)} }"
InitWeights(w) == IF ~w.present THEN EmptyWeights ELSE w

\* The engine after Model.Train ended as r, and how it ended.
Dispatched(en, r) ==
    [engine |-> [en EXCEPT !.weights = r.w,
                           !.model.Categories = r.cats,
                           !.model.Targets = r.targets],
     exit |-> r.exit, err |-> r.err]

\* Engine.Train from the lazy creation of the Weight Store on: the engine
\* after the call and how Model.Train ended, [engine, exit, err].
TrainDispatch(en, ins, outs, ord) ==
    Dispatched(en, ModelTrain(en.model, ins, outs, InitWeights(en.weights),
                              en.config, ord))

\* The caller's record of a call on engine e.
Log(e, call) ==
    /\ last' = [last EXCEPT ![e] = call]
    /\ called' = [called EXCEPT ![e] = @ \cup {call.op}]

\* The end of a Train call that reached Model.Train and ended there as r.
TrainEnd(e, ins, outs, r) ==
    /\ engine' = [engine EXCEPT ![e] = r.engine]
    /\ status' = IF r.exit = "return" THEN "running" ELSE r.exit
    /\ Log(e, Call("train", [ins |-> ins, outs |-> outs],
                   IF r.exit = "return" THEN r.err ELSE r.exit, NoRecord, TRUE))

\* e.Train(inputs, outputs), in a run in which at most n calls reach a
\* trainer.
TrainUpTo(e, ins, outs, n) ==
    /\ status = "running"
    /\ IF TrainCheck(engine[e], ins, outs) # "nil"
       THEN /\ Log(e, Call("train", [ins |-> ins, outs |-> outs],
                           TrainCheck(engine[e], ins, outs), NoRecord, FALSE))
            /\ UNCHANGED << engine, saved, status, trains >>
       ELSE /\ trains < n
            /\ \E ord \in TrainOrders(engine[e].model, ins, outs) :
                 TrainEnd(e, ins, outs, TrainDispatch(engine[e], ins, outs, ord))
            /\ trains' = trains + 1
            /\ UNCHANGED saved

\* e.Train(inputs, outputs)
Train(e, ins, outs) == TrainUpTo(e, ins, outs, MaxTrains)

\* A variant of Predict that creates the Weight Store when there is none,
\* as Train does.
PredictCreatesWeights(e, input) ==
    /\ status = "running"
    /\ IF ~engine[e].model.present
       THEN /\ Log(e, Call("predict", input, ErrModelNotInitialized, NoRecord, FALSE))
            /\ UNCHANGED engine
       ELSE /\ engine' = [engine EXCEPT ![e].weights = InitWeights(@)]
            /\ \E r \in ModelPredict(engine[e].model, input,
                                     InitWeights(engine[e].weights)) :
                  Log(e, Call("predict", input, r.err, r.res, TRUE))
    /\ UNCHANGED << saved, status, trains >>

\* e.Predict(input)
Predict(e, input) ==
    /\ status = "running"
    /\ IF ~engine[e].model.present
       THEN Log(e, Call("predict", input, ErrModelNotInitialized, NoRecord, FALSE))
       ELSE IF ~engine[e].weights.present
       THEN Log(e, Call("predict", input, ErrWeightsNotInitialized, NoRecord, FALSE))
       ELSE \E r \in ModelPredict(engine[e].model, input, engine[e].weights) :
                Log(e, Call("predict", input, r.err, r.res, TRUE))
    /\ UNCHANGED << engine, saved, status, trains >>

\* A variant of WithModel that assigns e.model before it looks at the error
\* of json.Unmarshal; the formula of C7 is checked to fail with it.
WithModelAssignsFirst(e, text) ==
    /\ status = "running"
    /\ engine' = [engine EXCEPT ![e].model =
                    [UnmarshalModel(text).model EXCEPT !.present = TRUE]]
    /\ Log(e, Call("WithModel", text,
                   IF UnmarshalModel(text).ok THEN "nil" ELSE ErrUnmarshalModel,
                   NoRecord, FALSE))
    /\ UNCHANGED << saved, status, trains >>

\* e.WithModel(modelJSON)
WithModel(e, text) ==
    /\ status = "running"
    /\ LET r == UnmarshalModel(text)
       IN IF ~r.ok
          THEN /\ Log(e, Call("WithModel", text, ErrUnmarshalModel, NoRecord, FALSE))
               /\ UNCHANGED engine
          ELSE /\ engine' = [engine EXCEPT ![e].model = r.model]
               /\ Log(e, Call("WithModel", text, "nil", NoRecord, FALSE))
    /\ UNCHANGED << saved, status, trains >>

\* A variant of WithWeights that assigns e.weights before it looks at the
\* error of json.Unmarshal: a rejected text leaves the engine with no
\* Weight Store.
WithWeightsAssignsFirst(e, text) ==
    /\ status = "running"
    /\ engine' = [engine EXCEPT ![e].weights = UnmarshalWeights(text).weights]
    /\ Log(e, Call("WithWeights", text,
                   IF UnmarshalWeights(text).ok THEN "nil" ELSE ErrUnmarshalWeights,
                   NoRecord, FALSE))
    /\ UNCHANGED << saved, status, trains >>

\* e.WithWeights(weightsJSON)
WithWeights(e, text) ==
    /\ status = "running"
    /\ LET r == UnmarshalWeights(text)
       IN IF ~r.ok
          THEN /\ Log(e, Call("WithWeights", text, ErrUnmarshalWeights, NoRecord, FALSE))
               /\ UNCHANGED engine
          ELSE /\ engine' = [engine EXCEPT ![e].weights = r.weights]
               /\ Log(e, Call("WithWeights", text, "nil", NoRecord, FALSE))
    /\ UNCHANGED << saved, status, trains >>

\* e.WithConfig(config)
WithConfig(e, cfg) ==
    /\ status = "running"
    /\ engine' = [engine EXCEPT ![e].config = cfg]
    /\ Log(e, Call("WithConfig", cfg, "nil", NoRecord, FALSE))
    /\ UNCHANGED << saved, status, trains >>

\* e.GetModel(): the caller keeps the text it returns.
GetModel(e) ==
    /\ status = "running"
    /\ IF ~engine[e].model.present
       THEN /\ Log(e, Call("GetModel", NoRecord, ErrModelNotInitialized, NoRecord, FALSE))
            /\ UNCHANGED saved
       ELSE /\ Log(e, Call("GetModel", NoRecord, "nil", NoRecord, FALSE))
            /\ saved' = [saved EXCEPT !.model = { ModelJSON(engine[e].model) }]
    /\ UNCHANGED << engine, status, trains >>

\* e.GetWeights(): the caller keeps the text it returns.
GetWeights(e) ==
    /\ status = "running"
    /\ IF ~engine[e].weights.present
       THEN /\ Log(e, Call("GetWeights", NoRecord, ErrWeightsNotSet, NoRecord, FALSE))
            /\ UNCHANGED saved
       ELSE /\ Log(e, Call("GetWeights", NoRecord, "nil", NoRecord, FALSE))
            /\ saved' = [saved EXCEPT !.weights = { WeightsJSON(engine[e].weights) }]
    /\ UNCHANGED << engine, status, trains >>

\* e = NewAuto(outputSample): the variable e now names a new engine.
NewAuto(e, sample) ==
    /\ status = "running"
    /\ engine' = [engine EXCEPT ![e] = NewAutoEngine(sample)]
    /\ last' = [last EXCEPT ![e] = Call("NewAuto", sample, "nil", NoRecord, FALSE)]
    /\ called' = [called EXCEPT ![e] = {"NewAuto"}]
    /\ UNCHANGED << saved, status, trains >>

\* The nil *Engine that TrainAuto returns next to an error.
NoEngine ==
    [nil |-> TRUE, model |-> NoModel, weights |-> NoWeights, config |-> DefaultConfig]

IsNilEngine(en) == "nil" \in DOMAIN en

\* fmt.Errorf("training error: %w", err)
TrainingError(err) == "training error: " \o err

\* The end of a TrainAuto call whose Train reached Model.Train and ended
\* there as r: the engine is returned only when Train returned no error.
TrainAutoEnd(e, ins, outs, r) ==
    /\ engine' = [engine EXCEPT ![e] =
                    IF r.exit = "return" /\ r.err = "nil" THEN r.engine ELSE NoEngine]
    /\ status' = IF r.exit = "return" THEN "running" ELSE r.exit
    /\ last' = [last EXCEPT ![e] =
                  Call("TrainAuto", [ins |-> ins, outs |-> outs],
                       IF r.exit # "return" THEN r.exit
                       ELSE IF r.err = "nil" THEN "nil" ELSE TrainingError(r.err),
                       NoRecord, TRUE)]

\* e, err = TrainAuto(inputs, outputs): the variable e now names the engine
\* the call returned, or nil.
TrainAuto(e, ins, outs) ==
    /\ status = "running"
    /\ called' = [called EXCEPT ![e] = {"TrainAuto"}]
    /\ IF Len(outs) = 0
       THEN /\ engine' = [engine EXCEPT ![e] = NoEngine]
            /\ last' = [last EXCEPT ![e] =
                          Call("TrainAuto", [ins |-> ins, outs |-> outs],
                               ErrNoOutputData, NoRecord, FALSE)]
            /\ UNCHANGED << saved, status, trains >>
       ELSE IF TrainCheck(NewAutoEngine(outs[1]), ins, outs) # "nil"
       THEN /\ engine' = [engine EXCEPT ![e] = NoEngine]
            /\ last' = [last EXCEPT ![e] =
                          Call("TrainAuto", [ins |-> ins, outs |-> outs],
                               TrainingError(TrainCheck(NewAutoEngine(outs[1]), ins, outs)),
                               NoRecord, FALSE)]
            /\ UNCHANGED << saved, status, trains >>
       ELSE /\ trains < MaxTrains
            /\ \E ord \in TrainOrders(NewAutoModel(outs[1]), ins, outs) :
                 TrainAutoEnd(e, ins, outs,
                              TrainDispatch(NewAutoEngine(outs[1]), ins, outs, ord))
            /\ trains' = trains + 1
            /\ UNCHANGED saved

-----------------------------------------------------------------------------
(* The values the calls of a run are made with. *)

X == << "x" >>
Y == << "y" >>
T == << "t" >>
N == << "n" >>
V == << "v" >>

LabelA == << "a" >>
LabelB == << "b" >>

Rec1(f, v) == f :> v
Rec2(f, v, g, u) == (f :> v) @@ (g :> u)

Data(ins, outs) == [ins |-> ins, outs |-> outs]

\* One record with a text on the output side.
InsOne == << Rec1(X, F64(FromInt(1))) >>
DataOne == Data(InsOne, << Rec1(T, TextV(LabelA)) >>)

\* Record counts that Engine.Train rejects.
DataEmpty == Data(<< >>, << >>)
DataShortOutputs == Data(InsOne \o InsOne, DataOne.outs)
DataNoInputs == Data(<< >>, DataOne.outs)
DataNoOutputs == Data(InsOne, << >>)

Datasets == { DataOne, DataEmpty, DataShortOutputs, DataNoInputs, DataNoOutputs }

Inputs == { Rec1(X, F64(FromInt(1))), NoRecord }

\* Texts handed to WithModel: one json.Unmarshal rejects, one with a type
\* tag no trainer knows, and the texts of the four constructors.
MalformedModelText ==
    [wf |-> FALSE, type |-> "", targets |-> [has |-> FALSE, m |-> << >>],
     categories |-> [has |-> FALSE, m |-> << >>]]

UnsupportedModelText == [ModelJSON(NewLinearModel) EXCEPT !.type = "unsupported"]

ConstructorTexts ==
    { ModelJSON(NewLinearModel), ModelJSON(NewLogisticModel),
      ModelJSON(NewCategoricalModel), ModelJSON(NewMixedModel) }

ModelTexts == { MalformedModelText, UnsupportedModelText } \cup ConstructorTexts

\* Texts handed to WithWeights: one json.Unmarshal rejects, "{}", and two
\* with a "values" object.
MalformedWeightsText == [wf |-> FALSE, values |-> [has |-> FALSE, m |-> << >>]]

NoValuesText == [wf |-> TRUE, values |-> [has |-> FALSE, m |-> << >>]]

EmptyValuesText == WeightsJSON(EmptyWeights)

LinearValuesText ==
    WeightsJSON(WSet(WSet(EmptyWeights, WeightKey(X, Y), FromInt(2)), BiasKey(Y), 0))

WeightsTexts ==
    { MalformedWeightsText, NoValuesText, EmptyValuesText, LinearValuesText }

-----------------------------------------------------------------------------
(* Spec: one engine made by New(), called in any order. *)

TrainStep == \E d \in Datasets : Train(1, d.ins, d.outs) /\ UNCHANGED phase

PredictStep == \E input \in Inputs : Predict(1, input) /\ UNCHANGED phase

WithModelStep == \E text \in ModelTexts : WithModel(1, text) /\ UNCHANGED phase

WithWeightsStep == \E text \in WeightsTexts : WithWeights(1, text) /\ UNCHANGED phase

Next == TrainStep \/ PredictStep \/ WithModelStep \/ WithWeightsStep

Spec == Init /\ [][Next]_vars

-----------------------------------------------------------------------------
(* Properties of Spec.  last[1] holds the latest call on engine 1; a Train *)
(* or Predict call never makes a descriptor present or absent, so the      *)
(* descriptor the call found is present exactly if engine[1].model is.     *)

WellFormed(arg) == Len(arg.ins) = Len(arg.outs) /\ Len(arg.ins) > 0

KnownTypes == {"linear", "logistic", "categorical", "mixed"}

\* C1: on an engine with no Model Descriptor, every train call and every
\* predict call fails with ModelNotInitialized and reaches no trainer or
\* predictor, whatever its arguments are and whether or not a Weight Store
\* has been loaded.
C1_NoDescriptor ==
    (last[1].op \in {"train", "predict"} /\ ~engine[1].model.present)
        => (last[1].err = ErrModelNotInitialized /\ ~last[1].dispatched)

\* A train call with unequal record counts on an engine that has a loaded
\* Weight Store and no descriptor.
C1_Witness ==
    /\ last[1].op = "train"
    /\ Len(last[1].arg.ins) # Len(last[1].arg.outs)
    /\ ~engine[1].model.present
    /\ engine[1].weights.present

\* C2: on an engine that has a Model Descriptor and on which neither train
\* nor loadWeights has ever been called, every predict call fails with
\* WeightsNotInitialized.
C2_NoWeightStore ==
    (/\ last[1].op = "predict"
     /\ engine[1].model.present
     /\ called[1] \cap {"train", "WithWeights"} = {})
        => last[1].err = ErrWeightsNotInitialized

\* A predict call on an engine with a descriptor, before any train or
\* loadWeights call.
C2_Witness ==
    /\ last[1].op = "predict"
    /\ engine[1].model.present
    /\ called[1] = {"WithModel", "predict"}

\* C3: on an engine with a Model Descriptor, a train call with
\* len(inputs) # len(outputs) fails with ShapeMismatch and reaches no
\* trainer.
C3_ShapeMismatch ==
    (/\ last[1].op = "train"
     /\ engine[1].model.present
     /\ Len(last[1].arg.ins) # Len(last[1].arg.outs))
        => (last[1].err = ErrShapeMismatch /\ ~last[1].dispatched)

\* A train call with two input records and one output record on an engine
\* with a descriptor.
C3_Witness ==
    /\ last[1].op = "train"
    /\ engine[1].model.present
    /\ Len(last[1].arg.ins) > Len(last[1].arg.outs)
    /\ Len(last[1].arg.outs) > 0

\* C4 as stated: on an engine with a Model Descriptor, a train call fails
\* with EmptyTrainingSet whenever inputs is empty or outputs is empty, also
\* when only one of the two is empty.
C4_EitherEmpty ==
    (/\ last[1].op = "train"
     /\ engine[1].model.present
     /\ (Len(last[1].arg.ins) = 0 \/ Len(last[1].arg.outs) = 0))
        => last[1].err = ErrNoTrainingData

\* C4, amended: on an engine with a Model Descriptor, a train call fails
\* with EmptyTrainingSet when inputs and outputs are both empty, and with
\* ShapeMismatch when only one of the two is empty.
C4_BothEmpty ==
    (/\ last[1].op = "train"
     /\ engine[1].model.present
     /\ (Len(last[1].arg.ins) = 0 \/ Len(last[1].arg.outs) = 0))
        => /\ ~last[1].dispatched
           /\ last[1].err = IF Len(last[1].arg.ins) = Len(last[1].arg.outs)
                            THEN ErrNoTrainingData
                            ELSE ErrShapeMismatch

\* A train call with no input record and no output record on an engine with
\* a descriptor.
C4_Witness ==
    /\ last[1].op = "train"
    /\ engine[1].model.present
    /\ Len(last[1].arg.ins) = 0
    /\ Len(last[1].arg.outs) = 0
    /\ last[1].err = ErrNoTrainingData

\* The errors a train call can return.
TrainErrors ==
    { ErrModelNotInitialized, ErrShapeMismatch, ErrNoTrainingData,
      "ErrUnsupportedModelType", "ErrInvalidInput", "ErrInvalidOutput" }

\* C5 as stated: whenever a train call returns an error, the engine's Weight
\* Store after the call is the same as before the call; an absent Weight
\* Store stays absent and no key is added or changed.
C5_FailedTrainKeepsWeights ==
    [][(last'[1].op = "train" /\ last'[1].err \in TrainErrors)
          => engine'[1].weights = engine[1].weights]_vars

\* C5, amended: whenever a train call returns an error, no key of the
\* engine's Weight Store is added or changed; an absent Weight Store stays
\* absent when the error is ModelNotInitialized, ShapeMismatch or
\* EmptyTrainingSet, and has been replaced by an empty Weight Store when the
\* error is UnsupportedModelVariant.
C5_FailedTrainKeepsKeys ==
    [][(last'[1].op = "train" /\ last'[1].err \in TrainErrors)
          => engine'[1].weights =
                IF last'[1].err = "ErrUnsupportedModelType" /\ ~engine[1].weights.present
                THEN EmptyWeights
                ELSE engine[1].weights]_vars

\* A train call that returned UnsupportedModelVariant on an engine that had
\* no Weight Store, and has an empty one now.
C5_Witness ==
    /\ last[1].op = "train"
    /\ last[1].err = "ErrUnsupportedModelType"
    /\ called[1] = {"WithModel", "train"}
    /\ engine[1].weights = EmptyWeights

\* C6: on an engine whose descriptor's type tag is not one of linear,
\* logistic, categorical, mixed, a train call with equal, non-zero record
\* counts fails with UnsupportedModelVariant, and a predict call that follows
\* that failed train fails with UnsupportedModelVariant too.
C6_UnsupportedVariant ==
    /\ []((/\ last[1].op = "train"
           /\ engine[1].model.present
           /\ engine[1].model.Type \notin KnownTypes
           /\ WellFormed(last[1].arg))
             => last[1].err = "ErrUnsupportedModelType")
    /\ [][(/\ last[1].op = "train"
           /\ last[1].err = "ErrUnsupportedModelType"
           /\ last'[1].op = "predict")
             => last'[1].err = "ErrUnsupportedModelType"]_vars

\* A predict call that failed with UnsupportedModelVariant on an engine whose
\* Weight Store no loadWeights call has set: the failed train created it.
C6_Witness ==
    /\ last[1].op = "predict"
    /\ last[1].err = "ErrUnsupportedModelType"
    /\ called[1] = {"WithModel", "train", "predict"}

\* C7: loadModel and loadWeights on malformed text fail with
\* DeserializationError and leave the engine as it was; on success the
\* engine's descriptor (its Weight Store) is the parsed one, whatever it was
\* before, and the other of the two is left as it was.
C7_Load ==
    [][/\ last'[1].op = "WithModel" =>
            IF ~last'[1].arg.wf
            THEN last'[1].err = ErrUnmarshalModel /\ engine' = engine
            ELSE /\ last'[1].err = "nil"
                 /\ engine'[1].model.present
                 /\ engine'[1].model.Type = last'[1].arg.type
                 /\ engine'[1].model.Targets.m = last'[1].arg.targets.m
                 /\ engine'[1].model.Categories.m = last'[1].arg.categories.m
                 /\ engine'[1].weights = engine[1].weights
       /\ last'[1].op = "WithWeights" =>
            IF ~last'[1].arg.wf
            THEN last'[1].err = ErrUnmarshalWeights /\ engine' = engine
            ELSE /\ last'[1].err = "nil"
                 /\ engine'[1].weights.present
                 /\ DOMAIN engine'[1].weights.m = DOMAIN last'[1].arg.values.m
                 /\ \A key \in DOMAIN last'[1].arg.values.m :
                        engine'[1].weights.m[key].n = last'[1].arg.values.m[key].n
                 /\ engine'[1].model = engine[1].model]_vars

\* A loadModel call on malformed text that failed on an engine which had a
\* descriptor, and still has it.
C7_Witness ==
    /\ last[1].op = "WithModel"
    /\ ~last[1].arg.wf
    /\ last[1].err = ErrUnmarshalModel
    /\ engine[1].model.present

-----------------------------------------------------------------------------
(* SpecRT: the round trip of TestSerialization.  Engine 1 gets a           *)
(* descriptor, is configured and trained, and is serialized; the texts are *)
(* loaded into engine 2, made by New(); engine 2 may be trained; both      *)
(* engines predict the same record.  The caller may leave out the steps    *)
(* listed in Optional.                                                     *)

Script ==
    << "build", "configure", "train", "GetModel", "GetWeights",
       "WithModel", "WithWeights", "retrain", "predict", "predictFresh" >>

Optional == { "configure", "train", "GetWeights", "WithWeights", "retrain" }

Position(step) == CHOOSE p \in DOMAIN Script : Script[p] = step

\* The caller takes the step: it is ahead in the script, with only optional
\* steps in between.
Do(step) ==
    /\ phase < Position(step)
    /\ \A p \in (phase + 1)..(Position(step) - 1) : Script[p] \in Optional
    /\ phase' = Position(step)

\* Two records each: x = 1, 2 with a number, and x = 1, -1 with a 0/1
\* int, with a text, and with a number and a text.
InsPlain == << Rec1(X, F64(FromInt(1))), Rec1(X, F64(FromInt(2))) >>
InsSigned == << Rec1(X, F64(FromInt(1))), Rec1(X, F64(FromInt(-1))) >>

DataLinear ==
    Data(InsPlain, << Rec1(Y, F64(FromInt(2))), Rec1(Y, F64(FromInt(4))) >>)

DataBinary == Data(InsSigned, << Rec1(Y, IntV(1)), Rec1(Y, IntV(0)) >>)

DataLabels == Data(InsSigned, << Rec1(T, TextV(LabelA)), Rec1(T, TextV(LabelB)) >>)

DataMixed ==
    Data(InsSigned, << Rec2(N, F64(FromInt(5)), T, TextV(LabelA)),
                       Rec2(N, F64(FromInt(3)), T, TextV(LabelB)) >>)

LabelC == << "c" >>

\* Three records with three labels.
DataThreeLabels ==
    Data(InsSigned \o << Rec1(X, F64(FromInt(2))) >>,
         << Rec1(T, TextV(LabelA)), Rec1(T, TextV(LabelB)), Rec1(T, TextV(LabelC)) >>)

WellFormedData == { DataLinear, DataBinary, DataLabels, DataMixed, DataThreeLabels }

\* The output samples NewAuto is called with: the first output records.
Samples == { d.outs[1] : d \in WellFormedData }

\* The records the engines predict.
Records ==
    { Rec1(X, F64(FromInt(1))), Rec1(X, F64(FromInt(-1))), Rec1(X, F64(0)) }

\* Configs handed to WithConfig: one epoch, and Epochs left at zero.
OneEpoch ==
    [LearningRate |-> Fix(1, 2), Epochs |-> 1, BatchSize |-> 1,
     Regularize |-> Fix(1, 100), Tolerance |-> 0]

NoEpochs == [DefaultConfig EXCEPT !.Epochs = 0]

Configs == { OneEpoch, NoEpochs }

Build ==
    /\ Do("build")
    /\ \/ \E text \in ConstructorTexts : WithModel(1, text)
       \/ \E sample \in Samples : NewAuto(1, sample)

Configure == Do("configure") /\ \E cfg \in Configs : WithConfig(1, cfg)

TrainOriginal == Do("train") /\ \E d \in WellFormedData : Train(1, d.ins, d.outs)

SerializeModel == Do("GetModel") /\ GetModel(1)

SerializeWeights == Do("GetWeights") /\ GetWeights(1)

LoadModel == Do("WithModel") /\ \E text \in saved.model : WithModel(2, text)

LoadWeights == Do("WithWeights") /\ \E text \in saved.weights : WithWeights(2, text)

TrainFresh == Do("retrain") /\ \E d \in WellFormedData : Train(2, d.ins, d.outs)

PredictOriginal == Do("predict") /\ \E input \in Records : Predict(1, input)

PredictFresh == Do("predictFresh") /\ Predict(2, last[1].arg)

NextRT ==
    \/ Build
    \/ Configure
    \/ TrainOriginal
    \/ SerializeModel
    \/ SerializeWeights
    \/ LoadModel
    \/ LoadWeights
    \/ TrainFresh
    \/ PredictOriginal
    \/ PredictFresh

SpecRT == Init /\ [][NextRT]_vars

-----------------------------------------------------------------------------
(* Properties of SpecRT. *)

\* Engine 2 holds what loadModel and loadWeights make of the texts engine 1
\* serializes to, and nothing else has been done to it but predict.
Reloaded ==
    /\ called[2] = {"WithModel", "WithWeights", "predict"}
    /\ engine[2].model = UnmarshalModel(ModelJSON(engine[1].model)).model
    /\ engine[2].weights = UnmarshalWeights(WeightsJSON(engine[1].weights)).weights

\* Engine 1 has been trained: a train call on it returned without an error.
Trained ==
    /\ "train" \in called[1]
    /\ engine[1].model.Type \in KnownTypes
    /\ engine[1].weights.present
    /\ status = "running"

\* C8: for a trained engine of any of the four variants, predict on a fresh
\* engine that has loaded serializeModel() and serializeWeights() returns,
\* for the same record, the same result (same keys, same values) as predict
\* on the original engine.
C8_RoundTrip ==
    (/\ Trained
     /\ Reloaded
     /\ last[1].op = "predict"
     /\ last[2].op = "predict"
     /\ last[2].arg = last[1].arg)
        => (last[2].err = last[1].err /\ last[2].res = last[1].res)

\* Engine e has loaded the text that a mixed descriptor serializes to before
\* any training, and has then been trained on well-formed data.
UntrainedMixedLoaded(e) ==
    /\ called[e] = {"WithModel", "train"}
    /\ last[e].op = "train"
    /\ last[e].dispatched
    /\ WellFormed(last[e].arg)
    /\ saved.model = { ModelJSON(NewMixedModel) }
    /\ engine[e].model.Type = "mixed"

\* C9: a mixed descriptor serialized before any training can be loaded into
\* a fresh engine and trained: the train call returns without an error and
\* the descriptor then records a target type for every output field of a
\* recognised type.
C9_MixedReload ==
    UntrainedMixedLoaded(2)
        => /\ status = "running"
           /\ last[2].err = "nil"
           /\ \A key \in DOMAIN last[2].arg.outs[1] :
                  MixedBucket(last[2].arg.outs[1][key]) # "skip"
                      => /\ key \in DOMAIN engine[2].model.Targets.m
                         /\ engine[2].model.Targets.m[key] =
                                MixedBucket(last[2].arg.outs[1][key])

-----------------------------------------------------------------------------
(* SpecAuto: NewAuto on output samples with the fields v and n. *)

LabelRed == << "r", "e", "d" >>

\* The values a field of a sample takes.
SampleValues ==
    { F64(0), F64(FromInt(1)), F64(FromInt(2)), F64(Fix(1, 2)),
      IntV(0), IntV(1), IntV(2), Int64V(1), F32(FromInt(1)),
      Int64V(2), Int32V(2), F32(FromInt(2)),
      BoolV(TRUE), BoolV(FALSE), TextV(LabelRed), Other }

AutoSamples ==
    { NoRecord }
        \cup { Rec1(f, a) : f \in {V, N}, a \in SampleValues }
        \cup { Rec2(V, a, N, b) : a \in SampleValues, b \in SampleValues }

NextAuto == \E sample \in AutoSamples : NewAuto(1, sample) /\ UNCHANGED phase

SpecAuto == Init /\ [][NextAuto]_vars

\* The sample {"v": 1.0}.
UnitSample == Rec1(V, F64(FromInt(1)))

\* C10 as stated: createAuto applied to the output sample {"v": 1.0}, a
\* single floating-point field whose value is 1.0, selects the linear
\* variant.
C10_UnitSampleLinear ==
    (last[1].op = "NewAuto" /\ last[1].arg = UnitSample)
        => engine[1].model.Type = "linear"

\* C10, amended: createAuto applied to the output sample {"v": 1.0} selects
\* the logistic variant.
C10_UnitSampleLogistic ==
    (last[1].op = "NewAuto" /\ last[1].arg = UnitSample)
        => engine[1].model.Type = "logistic"

\* The engine NewAuto made of the sample {"v": 1.0}.
C10_Witness ==
    /\ last[1].op = "NewAuto"
    /\ last[1].arg = UnitSample
    /\ engine[1].model.present

-----------------------------------------------------------------------------
(* Properties of SpecAuto: the variant NewAuto selects. *)

\* The sample NewAuto was last called with.
AutoSample == last[1].arg

AutoCalled == last[1].op = "NewAuto" /\ engine[1].model.present

KindsOf(sample) == { sample[f].k : f \in DOMAIN sample }

\* C11: createAuto selects logistic for a sample whose fields are all
\* booleans, categorical for a sample whose fields are all text, and mixed
\* for a sample that has at least one text field together with at least one
\* numeric field (a sample has at least one field).
C11_UniformSamples ==
    (AutoCalled /\ AutoSample # NoRecord)
        => /\ KindsOf(AutoSample) = {"bool"} => engine[1].model.Type = "logistic"
           /\ KindsOf(AutoSample) = {"string"} => engine[1].model.Type = "categorical"
           /\ ("string" \in KindsOf(AutoSample)
                 /\ KindsOf(AutoSample) \cap NumericKinds # {})
                => engine[1].model.Type = "mixed"

\* NewAuto was called with two booleans.
C11_Witness ==
    /\ AutoCalled
    /\ AutoSample = Rec2(V, BoolV(TRUE), N, BoolV(FALSE))

\* The three classes C12 names: text, boolean or numeric exactly 0 or 1,
\* other numeric.
BinaryClasses(sample) ==
    { IF sample[f].k = "string" THEN "text"
      ELSE IF sample[f].k = "bool" \/ sample[f].n \in {0, One} THEN "binary"
      ELSE "numeric" :
        f \in { g \in DOMAIN sample : sample[g].k \in NumericKinds \cup {"string", "bool"} } }

\* The three classes of the first loop of NewAutoModel: text, boolean,
\* numeric of any value.
TypeClasses(sample) ==
    { IF sample[f].k = "string" THEN "text"
      ELSE IF sample[f].k = "bool" THEN "boolean"
      ELSE "numeric" :
        f \in { g \in DOMAIN sample : sample[g].k \in NumericKinds \cup {"string", "bool"} } }

\* C12 as stated: createAuto selects the mixed variant if and only if the
\* sample's fields fall into two or more of the classes text, boolean or
\* numeric exactly 0 or 1, other numeric.
C12_MixedIffTwoBinaryClasses ==
    AutoCalled
        => (engine[1].model.Type = "mixed"
              <=> Cardinality(BinaryClasses(AutoSample)) >= 2)

\* C12, amended: createAuto selects the mixed variant if and only if the
\* sample's fields fall into two or more of the classes text, boolean,
\* numeric (of any value); a sample of one boolean and one 0/1 numeric is
\* mixed, a sample of one 0/1 numeric and one other numeric is not.
C12_MixedIffTwoTypeClasses ==
    AutoCalled
        => /\ engine[1].model.Type = "mixed"
                <=> Cardinality(TypeClasses(AutoSample)) >= 2
           /\ AutoSample = Rec2(V, BoolV(TRUE), N, IntV(1))
                => engine[1].model.Type = "mixed"
           /\ AutoSample = Rec2(V, IntV(1), N, IntV(2))
                => engine[1].model.Type # "mixed"

\* NewAuto was called with one boolean and one 0/1 numeric.
C12_Witness ==
    /\ AutoCalled
    /\ AutoSample = Rec2(V, BoolV(TRUE), N, IntV(1))

\* C13: createAuto selects linear for every sample that has no text and no
\* boolean field and whose numeric fields, of any integer or floating
\* width, all have a value other than 0 and 1.
C13_NonBinaryNumericLinear ==
    (/\ AutoCalled
     /\ KindsOf(AutoSample) \cap {"string", "bool"} = {}
     /\ \A f \in DOMAIN AutoSample :
            AutoSample[f].k \in NumericKinds => AutoSample[f].n \notin {0, One})
        => engine[1].model.Type = "linear"

-----------------------------------------------------------------------------
(* SpecTA: TrainAuto, and Predict on the engine it returned. *)

OutsBoolean == << Rec1(Y, BoolV(TRUE)), Rec1(Y, BoolV(FALSE)) >>

\* The output sequences TrainAuto is called with.
AutoOutputs ==
    { << >>, DataOne.outs, DataLinear.outs, DataBinary.outs, DataLabels.outs,
      DataMixed.outs, OutsBoolean }

\* The input sequences TrainAuto is called with.
AutoInputs == { << >>, InsOne, InsSigned, InsPlain }

TrainAutoStep ==
    \E ins \in AutoInputs, outs \in AutoOutputs :
        TrainAuto(1, ins, outs) /\ UNCHANGED phase

\* The records the returned engine predicts.
AutoRecords == Records \cup { NoRecord, Rec1(X, F64(0)), Rec1(X, TextV(X)) }

PredictAutoStep ==
    /\ ~IsNilEngine(engine[1])
    /\ \E input \in AutoRecords : Predict(1, input) /\ UNCHANGED phase

NextTA == TrainAutoStep \/ PredictAutoStep

SpecTA == Init /\ [][NextTA]_vars

\* C14: trainAuto(inputs, outputs) fails with InvalidOutput when outputs is
\* empty; otherwise it returns an engine only if training succeeded, that
\* engine's descriptor variant is the one createAuto(outputs[0]) selects
\* and its Weight Store is present (so that predict is dispatched); if
\* training fails it returns an error and no engine.
C14_TrainAuto ==
    /\ (last[1].op = "TrainAuto" /\ status = "running")
         => /\ Len(last[1].arg.outs) = 0
                => /\ last[1].err = ErrNoOutputData
                   /\ IsNilEngine(engine[1])
            /\ Len(last[1].arg.outs) # 0
                => /\ ~IsNilEngine(engine[1]) <=> (last[1].err = "nil" /\ last[1].dispatched)
                   /\ last[1].err # "nil" => IsNilEngine(engine[1])
                   /\ ~IsNilEngine(engine[1])
                        => /\ engine[1].model.Type
                                = NewAutoModel(last[1].arg.outs[1]).Type
                           /\ engine[1].weights.present
    /\ (last[1].op = "predict" /\ "TrainAuto" \in called[1])
         => last[1].dispatched

\* TrainAuto returned an engine with the mixed descriptor.
C14_Witness ==
    /\ last[1].op = "TrainAuto"
    /\ last[1].err = "nil"
    /\ ~IsNilEngine(engine[1])
    /\ engine[1].model.Type = "mixed"

-----------------------------------------------------------------------------
(* SpecRe: one engine trained again, as in TestTrainMultipleTimes. *)

\* The second training data of TestTrainMultipleTimes.
DataLinearAgain ==
    Data(InsPlain, << Rec1(Y, F64(FromInt(3))), Rec1(Y, F64(FromInt(6))) >>)

\* Two data sets whose targets are all zero: no gradient step changes a
\* weight that is zero.
DataZero == Data(InsPlain, << Rec1(Y, F64(0)), Rec1(Y, F64(0)) >>)

DataZeroAgain == Data(InsSigned, DataZero.outs)

RetrainData == { DataLinear, DataLinearAgain, DataLabels, DataZero, DataZeroAgain }

ReBuild ==
    /\ called[1] = {}
    /\ \/ \E text \in ConstructorTexts \ { ModelJSON(NewMixedModel) } : WithModel(1, text)
       \/ NewAuto(1, DataMixed.outs[1])
    /\ UNCHANGED phase

ReConfigure ==
    /\ called[1] # {}
    /\ \E cfg \in Configs : WithConfig(1, cfg)
    /\ UNCHANGED phase

ReTrain ==
    /\ called[1] # {}
    /\ \E d \in RetrainData : TrainUpTo(1, d.ins, d.outs, MaxRetrains)
    /\ UNCHANGED phase

NextRe == ReBuild \/ ReConfigure \/ ReTrain

SpecRe == Init /\ [][NextRe]_vars

\* A step in which a train call on engine 1 reached its trainer and returned
\* without an error.
TrainReturns ==
    /\ trains' = trains + 1
    /\ status' = "running"
    /\ last'[1].op = "train"
    /\ last'[1].err = "nil"

\* No key of the Weight Store is removed by the step.
KeysKept == DOMAIN engine[1].weights.m \subseteq DOMAIN engine'[1].weights.m

\* With no epoch to run, every key the Weight Store had keeps its value: the
\* call did not set it back to zero.
ValuesKept ==
    engine[1].config.Epochs = 0
        => \A key \in DOMAIN engine[1].weights.m :
              engine'[1].weights.m[key] = engine[1].weights.m[key]

\* The step trains again, on other data than the train call before it.
OtherData ==
    /\ last[1].op = "train"
    /\ last[1].err = "nil"
    /\ last[1].dispatched
    /\ last'[1].arg # last[1].arg

-----------------------------------------------------------------------------
(* SpecCo: a linear or logistic engine with loaded weights predicts records *)
(* whose fields hold values of every dynamic type.                         *)

\* {"values": {"x->y": 2, "n->y": 3, "bias->y": 1}}
CoercionValuesText ==
    WeightsJSON(WSet(WSet(WSet(EmptyWeights, WeightKey(X, Y), FromInt(2)),
                          WeightKey(N, Y), FromInt(3)),
                     BiasKey(Y), FromInt(1)))

\* The values a field of a predicted record takes.
FieldValues ==
    { F64(FromInt(2)), F64(Fix(1, 2)), IntV(3), Int64V(3), Int32V(3), F32(FromInt(2)),
      BoolV(TRUE), BoolV(FALSE), TextV(X), TextV(LabelA), Other }

CoercionRecords ==
    { NoRecord }
        \cup { Rec1(f, a) : f \in {X, N}, a \in FieldValues }
        \cup { Rec2(X, a, N, b) : a \in FieldValues, b \in FieldValues }

CoBuild ==
    /\ called[1] = {}
    /\ \E text \in { ModelJSON(NewLinearModel), ModelJSON(NewLogisticModel) } :
          WithModel(1, text)
    /\ UNCHANGED phase

CoLoad ==
    /\ called[1] = {"WithModel"}
    /\ WithWeights(1, CoercionValuesText)
    /\ UNCHANGED phase

CoPredict ==
    /\ "WithWeights" \in called[1]
    /\ \E input \in CoercionRecords : Predict(1, input)
    /\ UNCHANGED phase

NextCo == CoBuild \/ CoLoad \/ CoPredict

SpecCo == Init /\ [][NextCo]_vars

\* bias(t) plus the sum over the fields of rec of weight(f->t) times the
\* number the shared coercion rule gives for the field.
CoercedOutput(w, rec, t) ==
    GetFloat(w, BiasKey(t)).v
      + SumFn([f \in DOMAIN rec |->
                 IF GetFloat(w, WeightKey(f, t)).ok /\ ConvertToFloat64(rec[f], f).ok
                 THEN FMul(GetFloat(w, WeightKey(f, t)).v, ConvertToFloat64(rec[f], f).v)
                 ELSE 0])

\* C16: for a linear engine predict returns, per target t, bias(t) plus the
\* sum over the input fields of weight(f->t) times the number the shared
\* coercion rule gives for the field's value: its value for any numeric
\* width, 1 or 0 for a boolean, 1 for a text equal to the field name and 0
\* for any other text.
C16_PredictCoerces ==
    (/\ last[1].op = "predict"
     /\ last[1].dispatched
     /\ engine[1].model.Type = "linear")
        => /\ last[1].err = "nil"
           /\ \A t \in DOMAIN last[1].res :
                 last[1].res[t] = F64(CoercedOutput(engine[1].weights, last[1].arg, t))

-----------------------------------------------------------------------------
(* SpecLg: a logistic engine trained on boolean targets, and a second one  *)
(* trained on the same data with true written as 1 and false as 0.         *)

\* The target values of the boolean data.
BooleanTargets == { BoolV(TRUE), BoolV(FALSE), IntV(1) }

BooleanData ==
    { Data(ins, << Rec1(Y, a), Rec1(Y, b) >>) :
        ins \in { InsSigned, InsPlain }, a \in BooleanTargets, b \in BooleanTargets }

\* The outputs with true replaced by 1 and false by 0.
Numbered(outs) ==
    [i \in 1..Len(outs) |->
        [f \in DOMAIN outs[i] |->
            IF outs[i][f].k = "bool"
            THEN (IF outs[i][f] = BoolV(TRUE) THEN IntV(1) ELSE IntV(0))
            ELSE outs[i][f]]]

LgBuild ==
    /\ \E e \in Engines :
          /\ called[e] = {}
          /\ e = 2 => "train" \in called[1]
          /\ WithModel(e, ModelJSON(NewLogisticModel))
    /\ UNCHANGED phase

LgConfigure ==
    /\ \/ called[1] = {"WithModel"} /\ WithConfig(1, OneEpoch)
       \/ /\ called[2] = {"WithModel"}
          /\ engine[2].config # engine[1].config
          /\ WithConfig(2, engine[1].config)
    /\ UNCHANGED phase

LgTrainBoolean ==
    /\ "WithModel" \in called[1]
    /\ "train" \notin called[1]
    /\ \E d \in BooleanData : TrainUpTo(1, d.ins, d.outs, MaxRetrains)
    /\ UNCHANGED phase

LgTrainNumbered ==
    /\ "WithModel" \in called[2]
    /\ "train" \notin called[2]
    /\ engine[2].config = engine[1].config
    /\ TrainUpTo(2, last[1].arg.ins, Numbered(last[1].arg.outs), MaxRetrains)
    /\ UNCHANGED phase

NextLg == LgBuild \/ LgConfigure \/ LgTrainBoolean \/ LgTrainNumbered

SpecLg == Init /\ [][NextLg]_vars

\* C17: training a logistic engine on outputs whose target values are
\* booleans is equivalent to training it on the same data with true
\* replaced by 1 and false by 0: both runs end with the same Weight Store.
C17_BooleanTargets ==
    (/\ status = "running"
     /\ last[1].op = "train" /\ last[1].err = "nil"
     /\ last[2].op = "train" /\ last[2].err = "nil"
     /\ last[2].arg.outs = Numbered(last[1].arg.outs))
        => engine[2].weights = engine[1].weights

-----------------------------------------------------------------------------
(* Properties of SpecRT: the probabilities a categorical engine returns. *)

\* The distribution the latest predict on engine e returned for target t.
ProbsOf(e, t) == last[e].res[ProbsKey(t)].p

\* Engine e is categorical and its latest call, a predict, returned a
\* distribution for target t.
ProbsReturned(e, t) ==
    /\ engine[e].model.Type = "categorical"
    /\ last[e].op = "predict"
    /\ last[e].dispatched
    /\ ProbsKey(t) \in DOMAIN last[e].res

-----------------------------------------------------------------------------
(* SpecMx: a mixed engine made by NewAuto, trained once on outputs with a  *)
(* text field and a second field of any type.                              *)

B == << "b" >>

\* A field name that reads like a categorical key: "t:a".
TA == T \o << ":" >> \o LabelA

\* The values the second field takes in the first output record.
MixedValues ==
    { IntV(0), IntV(1), IntV(2), F64(0), F64(FromInt(1)), F64(Fix(1, 2)), F64(FromInt(2)),
      Int64V(1), Int64V(2), Int32V(0), F32(FromInt(1)), BoolV(TRUE), BoolV(FALSE) }

\* The values it takes in the second output record.
LaterValues == { F64(FromInt(5)), IntV(1), BoolV(FALSE), TextV(LabelA) }

MixedData ==
    { Data(InsSigned, << Rec2(T, TextV(LabelA), B, a), Rec2(T, TextV(LabelB), B, b) >>) :
        a \in MixedValues, b \in LaterValues }
      \cup { Data(InsSigned, << Rec2(T, TextV(LabelA), TA, F64(FromInt(5))),
                                Rec2(T, TextV(LabelB), TA, F64(FromInt(3))) >>) }

MxBuild ==
    /\ called[1] = {}
    /\ \E d \in MixedData : NewAuto(1, d.outs[1])
    /\ UNCHANGED phase

MxConfigure ==
    /\ called[1] = {"NewAuto"}
    /\ WithConfig(1, OneEpoch)
    /\ UNCHANGED phase

MxTrain ==
    /\ "WithConfig" \in called[1]
    /\ \E d \in MixedData : Train(1, d.ins, d.outs)
    /\ UNCHANGED phase

NextMx == MxBuild \/ MxConfigure \/ MxTrain

SpecMx == Init /\ [][NextMx]_vars

\* The mixed engine 1 has just been trained without an error.
MixedTrained ==
    /\ engine[1].model.Type = "mixed"
    /\ last[1].op = "train"
    /\ last[1].dispatched
    /\ last[1].err = "nil"
    /\ status = "running"

\* The bucket C19 gives a value: numeric of any width and not 0 or 1 is
\* numeric, a boolean or a numeric of any width that is 0 or 1 is boolean,
\* text is categorical.
BucketOfValue(val) ==
    IF val.k = "string" THEN "categorical"
    ELSE IF val.k = "bool" \/ val.n \in {0, One} THEN "boolean"
    ELSE "numeric"

\* C19: mixed training assigns every field of the first output record to
\* exactly one bucket and records it in target_types: numeric (any width)
\* other than 0 and 1 to numeric, boolean or numeric (any width) 0 or 1 to
\* boolean, text to categorical; the first output record alone decides.
C19_Buckets ==
    MixedTrained
        => /\ DOMAIN engine[1].model.Targets.m = DOMAIN last[1].arg.outs[1]
           /\ \A key \in DOMAIN last[1].arg.outs[1] :
                 engine[1].model.Targets.m[key]
                     = BucketOfValue(last[1].arg.outs[1][key])

\* The keys each sub-trainer of the latest mixed training wrote.
NumericKeys ==
    LinearKeys(last[1].arg.ins, BucketOutputs(last[1].arg.outs, "numeric"))

BooleanKeys ==
    LinearKeys(last[1].arg.ins, BucketOutputs(last[1].arg.outs, "boolean"))

CategoryKeys ==
    UNION { CategoricalKeys(last[1].arg.ins, t, DOMAIN engine[1].model.Categories.m[t]) :
              t \in { u \in BucketFields(last[1].arg.outs, "categorical") :
                        Cardinality(DOMAIN engine[1].model.Categories.m[u]) > 1 } }

\* C20: during mixed training no weight key is written by more than one of
\* the three sub-trainers (the target field names, being the fields of one
\* record, are distinct across the buckets), whatever the field names and
\* category labels, names that contain ':' or '->' included.
C20_DisjointKeys ==
    MixedTrained
        => /\ NumericKeys \cap BooleanKeys = {}
           /\ NumericKeys \cap CategoryKeys = {}
           /\ BooleanKeys \cap CategoryKeys = {}

-----------------------------------------------------------------------------
(* SpecMp: a mixed engine made by NewAuto, trained once, predicts. *)

\* The field name "t_probs": the key under which the categorical predictor
\* returns the distribution of the target "t".
TProbs == ProbsKey(T)

\* Outputs with a number, a text and a third field that is a boolean or a
\* 0/1 int; outputs with a text and a number or a 0/1 int only; outputs
\* whose numeric field is named "t_probs".
MixedPredictData ==
    { Data(InsSigned, << Rec2(N, F64(FromInt(5)), T, TextV(LabelA)) @@ Rec1(B, a),
                         Rec2(N, F64(FromInt(3)), T, TextV(LabelB)) @@ Rec1(B, b) >>) :
        << a, b >> \in { << BoolV(TRUE), BoolV(FALSE) >>, << IntV(1), IntV(0) >>,
                         << IntV(0), IntV(1) >> } }
      \cup { DataMixed,
             Data(InsSigned, << Rec2(T, TextV(LabelA), B, IntV(1)),
                                Rec2(T, TextV(LabelB), B, IntV(0)) >>),
             Data(InsSigned, << Rec2(T, TextV(LabelA), TProbs, F64(FromInt(5))),
                                Rec2(T, TextV(LabelB), TProbs, F64(FromInt(3))) >>) }

MpBuild ==
    /\ called[1] = {}
    /\ \E d \in MixedPredictData : NewAuto(1, d.outs[1])
    /\ UNCHANGED phase

MpConfigure ==
    /\ called[1] = {"NewAuto"}
    /\ WithConfig(1, OneEpoch)
    /\ UNCHANGED phase

MpTrain ==
    /\ "WithConfig" \in called[1]
    /\ \E d \in MixedPredictData : Train(1, d.ins, d.outs)
    /\ UNCHANGED phase

\* The records the mixed engine predicts.
MixedRecords == Records \cup { NoRecord, Rec1(X, F64(FromInt(2))) }

MpPredict ==
    /\ "WithConfig" \in called[1]
    /\ \E input \in MixedRecords : Predict(1, input)
    /\ UNCHANGED phase

NextMp == MpBuild \/ MpConfigure \/ MpTrain \/ MpPredict

SpecMp == Init /\ [][NextMp]_vars

\* The latest call on the mixed engine 1 is a predict that reached the
\* predictor of a trained engine.
MixedPredicted ==
    /\ engine[1].model.Type = "mixed"
    /\ "train" \in called[1]
    /\ last[1].op = "predict"
    /\ last[1].dispatched
    /\ last[1].err = "nil"

\* C21: every key of a mixed predict result is a field recorded in
\* target_types or the "<field>_probs" sibling of a field recorded as
\* categorical; a field recorded as numeric carries the linear predictor's
\* number, a field recorded as boolean carries a boolean that is true
\* exactly when the logistic probability is at least 0.5, and a field
\* recorded as categorical carries the categorical predictor's value.
C21_MixedResult ==
    MixedPredicted
        => /\ \A k \in DOMAIN last[1].res :
                \/ k \in DOMAIN engine[1].model.Targets.m
                \/ \E t \in FieldsOfType(engine[1].model.Targets.m, "categorical") :
                      k = ProbsKey(t)
           /\ \A k \in (DOMAIN last[1].res) \cap (DOMAIN engine[1].model.Targets.m) :
                CASE engine[1].model.Targets.m[k] = "numeric" ->
                       last[1].res[k]
                          = predictLinearModel(last[1].arg, engine[1].weights)[k]
                  [] engine[1].model.Targets.m[k] = "boolean" ->
                       last[1].res[k]
                          = BoolV(2 * predictLogisticModel(last[1].arg,
                                                           engine[1].weights)[k].n >= One)
                  [] OTHER ->
                       \E r \in predictCategoricalModel(last[1].arg, engine[1].weights,
                                                        engine[1].model.Categories.m) :
                           k \in DOMAIN r /\ last[1].res[k] = r[k]

-----------------------------------------------------------------------------
(* SpecCat: a categorical or mixed engine trained, and trained again on     *)
(* outputs that bring new labels, under Configs that differ in every field. *)

\* One label, two labels, three labels, and a number next to two labels.
CategoryData == { DataOne, DataLabels, DataThreeLabels, DataMixed }

\* Two and three epochs; the first leaves BatchSize at zero and has a
\* Tolerance no loss change exceeds.
TwoEpochs ==
    [LearningRate |-> Fix(1, 2), Epochs |-> 2, BatchSize |-> 0,
     Regularize |-> Fix(1, 100), Tolerance |-> FromInt(100)]

ThreeEpochs == [OneEpoch EXCEPT !.Epochs = 3, !.BatchSize = 2]

CategoryConfigs == { OneEpoch, TwoEpochs }

CatBuild ==
    /\ called[1] = {}
    /\ \/ WithModel(1, ModelJSON(NewCategoricalModel))
       \/ NewAuto(1, DataMixed.outs[1])
    /\ UNCHANGED phase

CatConfigure ==
    /\ called[1] \in { {"WithModel"}, {"NewAuto"} }
    /\ \E cfg \in CategoryConfigs : WithConfig(1, cfg)
    /\ UNCHANGED phase

CatTrain ==
    /\ "WithConfig" \in called[1]
    /\ \E d \in CategoryData : TrainUpTo(1, d.ins, d.outs, MaxRetrains)
    /\ UNCHANGED phase

NextCat == CatBuild \/ CatConfigure \/ CatTrain

SpecCat == Init /\ [][NextCat]_vars

\* The categories mapping of engine 1.
Categories == engine[1].model.Categories.m

\* C22: across any sequence of categorical or mixed train calls on one
\* descriptor the categories mapping only grows: a (target, label) pair
\* once present is never removed, and the index once assigned to a label is
\* never changed by a later train call.
C22_CategoriesGrow ==
    [][last'[1].op = "train"
         => \A t \in DOMAIN Categories :
               /\ t \in DOMAIN Categories'
               /\ \A c \in DOMAIN Categories[t] :
                     /\ c \in DOMAIN Categories'[t]
                     /\ Categories'[t][c] = Categories[t][c]]_vars

\* A second training has added the label "c" to the two labels of the first.
C22_Witness ==
    /\ trains = 2
    /\ status = "running"
    /\ last[1].op = "train"
    /\ last[1].err = "nil"
    /\ last[1].arg = DataThreeLabels
    /\ T \in DOMAIN Categories
    /\ DOMAIN Categories[T] = { LabelA, LabelB, LabelC }
    /\ Categories[T][LabelA] # Categories[T][LabelB]

\* C23: after any sequence of categorical or mixed train calls, re-training
\* with outputs that introduce new labels included, within each target no
\* two distinct category labels share the same index.
C23_DistinctIndices ==
    \A t \in DOMAIN Categories :
        \A c, d \in DOMAIN Categories[t] :
            c # d => Categories[t][c] # Categories[t][d]

RECURSIVE PassesExactly(_, _, _, _, _, _, _)
\* The Weight Store after exactly n passes over all examples of one target,
\* one update per example.  (The two branches are the same store: the
\* comparison makes TLC finish a pass before it begins the next.)
PassesExactly(w, cfg, ins, outs, target, C, n) ==
    IF n <= 0 THEN w
    ELSE LET w2 == CatSamples(w, cfg, ins, outs, target, C, 1)
         IN IF w2 = w THEN PassesExactly(w, cfg, ins, outs, target, C, n - 1)
            ELSE PassesExactly(w2, cfg, ins, outs, target, C, n - 1)

\* The Config with batch_size and tolerance set to fixed values.
WithoutBatching(cfg) == [cfg EXCEPT !.BatchSize = 1, !.Tolerance = 0]

\* C25: a train call on a categorical engine performs, for each target with
\* two or more categories, exactly `epochs` passes over all examples with
\* one update per example, whatever batch_size and tolerance are, and then
\* terminates: the call returns, and the weights of the target are those
\* that exactly `epochs` passes leave.
C25_ExactPasses ==
    [][(/\ last'[1].op = "train"
        /\ last'[1].dispatched
        /\ engine[1].model.Type = "categorical")
         => /\ status' = "running"
            /\ last'[1].err = "nil"
            /\ \A t \in TargetNames(last'[1].arg.outs) :
                 Cardinality(DOMAIN Categories'[t]) >= 2
                    => Restrict(engine'[1].weights.m,
                                CategoricalKeys(last'[1].arg.ins, t, DOMAIN Categories'[t]))
                         = Restrict(
                             PassesExactly(
                                 WEnsureAll(InitWeights(engine[1].weights),
                                            CategoricalKeys(last'[1].arg.ins, t,
                                                            DOMAIN Categories'[t])),
                                 WithoutBatching(engine[1].config),
                                 last'[1].arg.ins, last'[1].arg.outs, t,
                                 DOMAIN Categories'[t], engine[1].config.Epochs).m,
                             CategoricalKeys(last'[1].arg.ins, t, DOMAIN Categories'[t]))]_vars

\* A categorical engine whose Config has two epochs, no batch size and a
\* large tolerance has been trained on three labels.
C25_Witness ==
    /\ engine[1].model.Type = "categorical"
    /\ engine[1].config = TwoEpochs
    /\ status = "running"
    /\ last[1].op = "train"
    /\ last[1].err = "nil"
    /\ last[1].arg = DataThreeLabels
    /\ \E key \in DOMAIN engine[1].weights.m : engine[1].weights.m[key] # F64(0)

-----------------------------------------------------------------------------
(* SpecLin: a linear or logistic engine trained, and trained again, under   *)
(* the Configs WithConfig accepts.                                          *)

\* The Config of the README's logistic example: LearningRate and Epochs are
\* set, the other fields are left at their zero value.
ReadmeConfig ==
    [LearningRate |-> Fix(1, 100), Epochs |-> 1000, BatchSize |-> 0,
     Regularize |-> 0, Tolerance |-> 0]

LinearConfigs == { OneEpoch, ThreeEpochs, NoEpochs, ReadmeConfig }

\* Two features and two targets; the second input record lacks a feature.
DataTwoTargets ==
    Data(<< Rec2(X, F64(FromInt(1)), N, IntV(2)), Rec1(X, F64(FromInt(2))) >>,
         << Rec2(Y, F64(FromInt(1)), V, IntV(0)), Rec2(Y, F64(FromInt(3)), V, IntV(1)) >>)

LinearData == { DataLinear, DataBinary, DataTwoTargets }

LinBuild ==
    /\ called[1] = {}
    /\ \E text \in { ModelJSON(NewLinearModel), ModelJSON(NewLogisticModel) } :
          WithModel(1, text)
    /\ UNCHANGED phase

LinConfigure ==
    /\ called[1] # {}
    /\ \E cfg \in LinearConfigs : WithConfig(1, cfg)
    /\ UNCHANGED phase

LinTrain ==
    /\ "WithConfig" \in called[1]
    /\ \E d \in LinearData : TrainUpTo(1, d.ins, d.outs, MaxRetrains)
    /\ UNCHANGED phase

NextLin == LinBuild \/ LinConfigure \/ LinTrain

SpecLin == Init /\ [][NextLin]_vars

\* A step in which a train call on the linear or logistic engine 1 reaches
\* its trainer.
LinearTrainStep ==
    /\ last'[1].op = "train"
    /\ last'[1].dispatched
    /\ engine[1].model.Type \in {"linear", "logistic"}

\* The loss of the convergence check and one pass over the batches, for the
\* linear or the logistic trainer.
LossOf(type, w, cx) ==
    IF type = "linear" THEN calculateMSE(w, cx) ELSE calculateLogLoss(w, cx)

PassOf(type, w, cx) ==
    IF type = "linear" THEN LinearBatches(w, cx, 0) ELSE LogisticBatches(w, cx, 0)

RECURSIVE EpochsAtMost(_, _, _, _)
\* The Weight Store after at most n epochs, the loop ending earlier only
\* when the loss changes by less than the tolerance over an epoch.
EpochsAtMost(type, w, cx, n) ==
    IF n <= 0 THEN w
    ELSE LET w2 == PassOf(type, w, cx)
         IN IF Abs(LossOf(type, w, cx) - LossOf(type, w2, cx)) < cx.cfg.Tolerance
            THEN w2
            ELSE EpochsAtMost(type, w2, cx, n - 1)

\* C24: a train call on a linear or logistic engine always terminates,
\* executing at most `epochs` epochs (stopping earlier only when the
\* epoch-over-epoch loss change is below tolerance), for every Config that
\* WithConfig accepts, a Config that leaves BatchSize at its zero value as
\* the README's logistic example does included.
C24_Terminates ==
    [][LinearTrainStep
         => /\ status' = "running"
            /\ last'[1].err = "nil"
            /\ \E ord \in TrainOrders(engine[1].model, last'[1].arg.ins, last'[1].arg.outs) :
                 engine'[1].weights
                   = EpochsAtMost(engine[1].model.Type,
                                  WEnsureAll(InitWeights(engine[1].weights),
                                             LinearKeys(last'[1].arg.ins, last'[1].arg.outs)),
                                  NewContext(last'[1].arg.ins, last'[1].arg.outs,
                                             ord.feats1, ord.targs, engine[1].config),
                                  engine[1].config.Epochs)]_vars

\* C26: after a successful train on a linear or logistic engine the Weight
\* Store contains the key "<feature>-><target>" for every field of the
\* first input record paired with every field of the first output record,
\* and the key "bias-><target>" for every field of the first output record;
\* keys that already existed keep their value through this setup step (with
\* no epoch to run, the store after the call shows what the setup step
\* left: the old values, and zero under the new keys).
C26_KeysCreated ==
    [][(/\ LinearTrainStep
        /\ status' = "running"
        /\ last'[1].err = "nil")
         => /\ \A f \in DOMAIN last'[1].arg.ins[1] :
                 \A t \in DOMAIN last'[1].arg.outs[1] :
                    WeightKey(f, t) \in DOMAIN engine'[1].weights.m
            /\ \A t \in DOMAIN last'[1].arg.outs[1] :
                 BiasKey(t) \in DOMAIN engine'[1].weights.m
            /\ engine[1].config.Epochs = 0
                 => \A key \in DOMAIN engine'[1].weights.m :
                       engine'[1].weights.m[key]
                         = IF key \in DOMAIN engine[1].weights.m
                           THEN engine[1].weights.m[key]
                           ELSE F64(0)]_vars

\* A second training, with no epoch to run, on data with a new feature and
\* a new target has kept the weight the first training left.
C26_Witness ==
    /\ trains = 2
    /\ status = "running"
    /\ engine[1].model.Type = "linear"
    /\ engine[1].config = NoEpochs
    /\ last[1].op = "train"
    /\ last[1].err = "nil"
    /\ last[1].arg = DataTwoTargets
    /\ WeightKey(N, V) \in DOMAIN engine[1].weights.m
    /\ engine[1].weights.m[WeightKey(X, Y)] # F64(0)

-----------------------------------------------------------------------------
(* Properties of Spec: training on a loaded Weight Store. *)

\* C27: after WithWeights succeeds on any text it accepts, a snapshot with
\* no "values" field or with "values": null included, a following train on
\* an engine with a known variant and well-formed data completes normally
\* and stores the trained keys in the loaded Weight Store; the call never
\* crashes.
C27_TrainAfterLoad ==
    (/\ "WithWeights" \in called[1]
     /\ engine[1].weights.present
     /\ last[1].op = "train"
     /\ last[1].dispatched
     /\ WellFormed(last[1].arg)
     /\ engine[1].model.Type \in KnownTypes)
        => /\ status = "running"
           /\ last[1].err = "nil"
           /\ engine[1].model.Type \in {"linear", "logistic"}
                => LinearKeys(last[1].arg.ins, last[1].arg.outs)
                      \subseteq DOMAIN engine[1].weights.m

-----------------------------------------------------------------------------
(* SpecUse: one engine of any variant in use: once a train call has         *)
(* succeeded (phase 1) the caller goes on to predict, train, configure,     *)
(* serialize and load in any order.                                         *)

UseData == { DataLabels, DataMixed }

UseRecords == { Rec1(X, F64(FromInt(1))), Rec1(X, F64(0)) }

\* The texts the caller loads once the engine is trained: a descriptor of
\* an unknown variant, a text that json.Unmarshal rejects, and a Weight
\* Store with no "values".
LaterModelTexts == { UnsupportedModelText }

LaterWeightsTexts == { MalformedWeightsText, NoValuesText }

\* The caller's position after a call: 1 from the first train call on that
\* returned without an error.
Succeeded ==
    IF /\ last'[1].op = "train"
       /\ last'[1].dispatched
       /\ last'[1].err = "nil"
    THEN 1 ELSE phase

UseBuild ==
    /\ called[1] = {}
    /\ \/ \E text \in ConstructorTexts \ { ModelJSON(NewMixedModel) } : WithModel(1, text)
       \/ NewAuto(1, DataMixed.outs[1])
    /\ UNCHANGED phase

UseConfigure ==
    /\ called[1] # {}
    /\ WithConfig(1, OneEpoch)
    /\ UNCHANGED phase

UseTrain ==
    /\ engine[1].config = OneEpoch
    /\ \E d \in UseData : TrainUpTo(1, d.ins, d.outs, MaxRetrains)
    /\ phase' = Succeeded

UsePredict ==
    /\ called[1] # {}
    /\ \E input \in UseRecords : Predict(1, input)
    /\ UNCHANGED phase

UseSerialize ==
    /\ phase = 1
    /\ GetModel(1) \/ GetWeights(1)
    /\ UNCHANGED phase

UseLoadModel ==
    /\ phase = 1
    /\ \E text \in LaterModelTexts : WithModel(1, text)
    /\ UNCHANGED phase

UseLoadWeights ==
    /\ phase = 1
    /\ \E text \in LaterWeightsTexts : WithWeights(1, text)
    /\ UNCHANGED phase

NextUse ==
    \/ UseBuild
    \/ UseConfigure
    \/ UseTrain
    \/ UsePredict
    \/ UseSerialize
    \/ UseLoadModel
    \/ UseLoadWeights

SpecUse == Init /\ [][NextUse]_vars

\* C28: predict never changes engine state: after any predict call,
\* successful or failed and for any variant, the Weight Store (key set and
\* values), the Model Descriptor (variant, categories, target_types) and
\* the Config are the same as before the call.
C28_PredictKeepsState ==
    [][last'[1].op = "predict"
         => /\ engine'[1].weights = engine[1].weights
            /\ engine'[1].model = engine[1].model
            /\ engine'[1].config = engine[1].config]_vars

\* A trained mixed engine has predicted a number and a label.
C28_Witness ==
    /\ phase = 1
    /\ engine[1].model.Type = "mixed"
    /\ last[1].op = "predict"
    /\ last[1].err = "nil"
    /\ {T, N} \subseteq DOMAIN last[1].res
    /\ DOMAIN engine[1].weights.m # {}

\* C29: once a train call has succeeded on an engine, every later predict
\* call on it returns a result and no error, for as long as the descriptor
\* is not replaced by one with an unknown variant; it never fails with
\* WeightsNotInitialized again, whatever train, predict, WithConfig,
\* GetModel, GetWeights or load calls follow.
C29_PredictAfterTrain ==
    (/\ phase = 1
     /\ last[1].op = "predict"
     /\ engine[1].model.Type \in KnownTypes)
        => /\ last[1].dispatched
           /\ last[1].err = "nil"
           /\ engine[1].weights.present

\* A predict returned a result after a trained engine was trained again,
\* serialized and handed a Weight Store text that was rejected.
C29_Witness ==
    /\ phase = 1
    /\ trains = 2
    /\ last[1].op = "predict"
    /\ last[1].err = "nil"
    /\ DOMAIN last[1].res # {}
    /\ {"GetWeights", "WithWeights", "WithModel"} \subseteq called[1]
    /\ saved.weights # {}

\* C30: predict is deterministic: two predict calls with the same input
\* record on an engine whose descriptor and Weight Store have not changed
\* return the same result, the category chosen for a categorical target
\* when two categories have equal probability included.
C30_Deterministic ==
    [][(/\ last[1].op = "predict"
        /\ last'[1].op = "predict"
        /\ last'[1].arg = last[1].arg)
         => /\ last'[1].err = last[1].err
            /\ last'[1].res = last[1].res]_vars

=============================================================================
